---- MODULE Spec2Model ----
(***************************************************************************)
(* A model of the SnowWeave sprite pipeline: frame sampling                *)
(* (lib/extract_sprite_frames.py), chroma keying, cropping, width          *)
(* normalisation and the directory batch (remove_background.py), sheet     *)
(* composition, and the chain of these in SnowWeaveAPI.full_pipeline.      *)
(*                                                                         *)
(* Each component has its own specification (SpecExtract, SpecBatch, ...). *)
(* The variables of the components a specification does not run are held   *)
(* at their idle values.                                                   *)
(***************************************************************************)
EXTENDS Integers, Sequences, FiniteSets, TLC

(***************************************************************************)
(* Bounds of the model.                                                    *)
(***************************************************************************)
\* times are multiples of 1/TicksPerSecond seconds
TicksPerSecond == 8
\* largest start_time / end_time, in ticks
MaxTick == 3
\* largest CAP_PROP_FRAME_COUNT
MaxTotalFrames == 6
\* largest max_frames argument
MaxMaxFrames == 3
\* frame rates of the modelled videos (frames per second)
FpsValues == {8, 16, 32}

\* the value of "no object" (Python None)
None == "None"
\* None where an image is expected
NoImage == [mode |-> "None", w |-> 0, h |-> 0, px |-> <<>>]

Max(a, b) == IF a >= b THEN a ELSE b
Min(a, b) == IF a <= b THEN a ELSE b

(***************************************************************************)
(* State.                                                                  *)
(***************************************************************************)
\* extract_frames_from_video_segment (lib/extract_sprite_frames.py)
VARIABLES
  fps,            \* cap.get(CAP_PROP_FPS)
  total_frames,   \* int(cap.get(CAP_PROP_FRAME_COUNT))
  start_time,     \* argument, in ticks; -TicksPerSecond is the sentinel -1
  end_time,       \* argument, in ticks; -TicksPerSecond is the sentinel -1
  max_frames,     \* argument
  ex_pc,          \* position in extract_frames_from_video_segment
  cap_open,       \* the VideoCapture is open (not released)
  start_frame,    \* int(start_time * fps)
  end_frame,      \* min(int(end_time * fps), total_frames)
  frame_indices,  \* the sampled indices
  decoded,        \* outcome of cap.read() at each index read so far
  frames,         \* the returned list; each frame is its source index
  ex_i,           \* position of the for loop in frame_indices
  ex_error        \* the exception the call ended with, or None

extractVars == <<fps, total_frames, start_time, end_time, max_frames, ex_pc,
                 cap_open, start_frame, end_frame, frame_indices, decoded,
                 frames, ex_i, ex_error>>

\* remove_background (remove_background.py)
VARIABLES
  key_image,      \* argument image of remove_background
  key_bg_color,   \* argument bg_color
  key_tolerance,  \* argument tolerance
  key_result      \* the returned image, or None before the call

keyVars == <<key_image, key_bg_color, key_tolerance, key_result>>

\* create_sprite_sheet (lib/extract_sprite_frames.py)
VARIABLES
  sheet_frames,      \* argument frames, a list of images
  sheet_frame_size,  \* argument frame_size, <<width, height>> or NoSize
  sheet_pc,          \* position in create_sprite_sheet
  sprite_sheet,      \* the returned sheet, or NoImage
  sheet_out_frames   \* the returned list of frames

sheetVars == <<sheet_frames, sheet_frame_size, sheet_pc, sprite_sheet,
               sheet_out_frames>>

\* process_directory (remove_background.py)
VARIABLES
  input_dir,          \* the image files of input_dir: filename -> image
  image_files,        \* the listing os.listdir gave, in its order
  tolerance,          \* argument
  num_workers,        \* argument
  auto_crop,          \* argument
  crop_padding,       \* argument
  bd_pc,              \* position in process_directory
  bd_k,               \* position of "for filename in image_files"
  image,              \* local of the loop body: the image being processed
  bg_color,           \* local of the loop body
  result,             \* local of the loop body
  processed_images,   \* list of the results of the files that succeeded
  image_filenames,    \* list of their filenames
  normalized_images,  \* normalize_width(processed_images)
  bd_j,               \* position of the save loop
  output_dir,         \* the files written to output_dir: filename -> image
  success_count,
  fail_count,
  report,             \* the counts printed at the end, or NoReport
  raised,             \* the filenames whose pipeline raised (printed by except)
  save_raised         \* the filenames whose save raised (printed by except)

batchVars == <<input_dir, image_files, tolerance, num_workers, auto_crop,
               crop_padding, bd_pc, bd_k, image, bg_color, result,
               processed_images, image_filenames, normalized_images, bd_j,
               output_dir, success_count, fail_count, report, raised,
               save_raised>>

\* SnowWeaveAPI.full_pipeline (snowweave.py), from the extraction on.  A frame
\* is held as the source index it was decoded from.
VARIABLES
  fp_pc,            \* position in full_pipeline
  fp_frames,        \* frames, the list extract_frames_from_video_segment returned
  frames_dir,       \* 1_extracted_frames: a list of [name, frame], as listed
  original_sheet,   \* the frames of 1_original_sprite_sheet.png, left to right
  nobg_dir,         \* 2_nobg_frames: a list of [name, frame], as listed
  nobg_files,       \* sorted listing of 2_nobg_frames
  final_sheet       \* the frames of 3_final_sprite_sheet.png, left to right

pipeVars == <<fp_pc, fp_frames, frames_dir, original_sheet, nobg_dir,
              nobg_files, final_sheet>>

\* auto_crop_transparent (remove_background.py)
VARIABLES
  crop_image,     \* argument image
  crop_pad,       \* argument padding
  crop_result,    \* the returned image, or NoImage before the call
  crop_again      \* what a second call on crop_result returned, or NoImage

cropVars == <<crop_image, crop_pad, crop_result, crop_again>>

\* normalize_width (remove_background.py)
VARIABLES
  norm_images,    \* argument images, a list
  norm_pc,        \* position in normalize_width
  norm_result     \* the returned list

normVars == <<norm_images, norm_pc, norm_result>>

\* black-border calibration (lib/extract_sprite_frames.py, remove_background.py)
VARIABLES
  bp_decoded,     \* the decoded frames pil_frame, in sampling order
  crop_params,    \* the crop window of the call, or NoParams
  bp_pc,          \* position in the frame loop
  bp_frames,      \* frames, the list the extraction returns
  bp_batch        \* the same images after step 1 of process_directory

borderVars == <<bp_decoded, crop_params, bp_pc, bp_frames, bp_batch>>

\* detect_background_color then remove_background (remove_background.py)
VARIABLES
  det_image,      \* image
  det_tolerance,  \* argument tolerance
  det_bg_color,   \* bg_color, or NoColor before detection
  det_result      \* result, or NoImage before keying

detVars == <<det_image, det_tolerance, det_bg_color, det_result>>

vars == <<extractVars, keyVars, sheetVars, batchVars,
          pipeVars, cropVars, normVars, borderVars, detVars>>

\* the variables each component leaves alone
notExtract == <<keyVars, sheetVars, batchVars, pipeVars,
                cropVars, normVars, borderVars, detVars>>
notKey == <<extractVars, sheetVars, batchVars, pipeVars,
            cropVars, normVars, borderVars, detVars>>
notSheet == <<extractVars, keyVars, batchVars, pipeVars,
              cropVars, normVars, borderVars, detVars>>
notBatch == <<extractVars, keyVars, sheetVars, pipeVars,
              cropVars, normVars, borderVars, detVars>>
notPipe == <<extractVars, keyVars, sheetVars, batchVars,
             cropVars, normVars, borderVars, detVars>>
notCrop == <<extractVars, keyVars, sheetVars, batchVars,
             pipeVars, normVars, borderVars, detVars>>
notNorm == <<extractVars, keyVars, sheetVars, batchVars,
             pipeVars, cropVars, borderVars, detVars>>
notBorder == <<extractVars, keyVars, sheetVars, batchVars,
               pipeVars, cropVars, normVars, detVars>>
notDet == <<extractVars, keyVars, sheetVars, batchVars,
            pipeVars, cropVars, normVars, borderVars>>

(***************************************************************************)
(* FrameSampler: lib/extract_sprite_frames.py                              *)
(***************************************************************************)
target_fps == 16

\* the sentinel -1 (seconds) in ticks
Sentinel == 0 - TicksPerSecond

\* int(t * fps) for a time of t ticks, t >= 0: truncation of an exact product
FrameOfTime(t, f) == (t * f) \div TicksPerSecond

\* parse_full_video
ParseFullVideo(st, et) ==
  (st = 0 /\ et = 0) \/ st = Sentinel \/ et = Sentinel

\* start_frame: int(start_time * fps), start_time reset to 0 in full-video mode
StartFrame(st, et, f) ==
  IF ParseFullVideo(st, et) THEN 0 ELSE FrameOfTime(st, f)

\* floor(log2(a / b)) for integers a, b >= 1
RECURSIVE Log2Quot(_, _)
Log2Quot(a, b) ==
  IF a >= 2 * b THEN Log2Quot(a, 2 * b) + 1
  ELSE IF a < b THEN Log2Quot(2 * a, b) - 1
  ELSE 0

\* 2^e modulo m, e >= 0
RECURSIVE Pow2Mod(_, _)
Pow2Mod(e, m) == IF e = 0 THEN 1 % m ELSE (2 * Pow2Mod(e - 1, m)) % m

\* int(duration * fps) with duration = total_frames / fps, in IEEE-754 double
\* arithmetic (round to nearest, ties to even), for an integer frame rate f
\* and total >= 1.  With j the binary exponent of total / f, the quotient
\* is rounded to a significand of 53 bits, q = M * 2^(j - 52), where
\* total * 2^(52 - j) = m * f + r, 0 <= r < f, and M is m or m + 1.  Then
\* q * f = total + d * 2^(j - 52) exactly, with d = (M - m) * f - r.  The
\* product is rounded to the doubles around total, which are 2^(k - 52) apart
\* below total (2^(k - 53) when total = 2^k): it is total unless d < 0 and
\* the product is more than half of that distance below total, and then
\* int() gives total - 1.  r and the parity of m come from
\* total * 2^(52 - j) modulo 2 * f.
FrameOfDuration(total, f) ==
  LET j    == Log2Quot(total, f)
      k    == Log2Quot(total, 1)
      x    == ((total % (2 * f)) * Pow2Mod(52 - j, 2 * f)) % (2 * f)
      r    == x % f
      up   == 2 * r > f \/ (2 * r = f /\ x >= f)
      d    == (IF up THEN f ELSE 0) - r
      lost == d < 0 /\ (IF total = 2 ^ k THEN 4 ELSE 2) * (0 - d) > 2 ^ (k - j)
  IN  IF lost THEN total - 1 ELSE total

\* end_frame: min(int(end_time * fps), total_frames), end_time = duration in
\* full-video mode
EndFrame(st, et, f, total) ==
  IF ParseFullVideo(st, et) THEN Min(FrameOfDuration(total, f), total)
  ELSE Min(FrameOfTime(et, f), total)

AvailableFrames(st, et, f, total) ==
  EndFrame(st, et, f, total) - StartFrame(st, et, f)

\* frame_interval = max(1, int(fps / target_fps))
BaseInterval(f) == Max(1, f \div target_fps)

\* actual_max_frames before the cap
NaturalCount(st, et, f, total) ==
  AvailableFrames(st, et, f, total) \div BaseInterval(f)

CapApplies(st, et, f, total, mf) ==
  mf > 0 /\ mf < NaturalCount(st, et, f, total)

ActualMaxFrames(st, et, f, total, mf) ==
  IF CapApplies(st, et, f, total, mf) THEN mf
  ELSE NaturalCount(st, et, f, total)

\* a mutant of FrameInterval: the stride is not recomputed under the cap
FrameIntervalBase(st, et, f, total, mf) == BaseInterval(f)

FrameInterval(st, et, f, total, mf) ==
  IF CapApplies(st, et, f, total, mf)
  THEN AvailableFrames(st, et, f, total) \div mf
  ELSE BaseInterval(f)

\* list(range(lo, hi, step)), step >= 1
RECURSIVE Range(_, _, _)
Range(lo, hi, step) ==
  IF lo >= hi THEN <<>> ELSE <<lo>> \o Range(lo + step, hi, step)

\* s[:n] of Python for a list s
Prefix(s, n) ==
  IF n >= 0 THEN SubSeq(s, 1, Min(n, Len(s)))
  ELSE SubSeq(s, 1, Max(0, Len(s) + n))

\* a mutant of FrameIndices: the [:actual_max_frames] slice is missing
FrameIndicesNoSlice(st, et, f, total, mf) ==
  Range(StartFrame(st, et, f), EndFrame(st, et, f, total),
        FrameInterval(st, et, f, total, mf))

\* frame_indices = list(range(start_frame, end_frame, frame_interval))[:actual_max_frames]
FrameIndices(st, et, f, total, mf) ==
  Prefix(Range(StartFrame(st, et, f), EndFrame(st, et, f, total),
               FrameInterval(st, et, f, total, mf)),
         ActualMaxFrames(st, et, f, total, mf))

\* src/extract_sprite_frames.py, the extractor main.py imports:
\* max_possible_frames = max(1, available_frames // 8)
MaxPossibleFrames(st, et, f, total) ==
  Max(1, AvailableFrames(st, et, f, total) \div 8)

\* actual_max_frames = min(max_frames, max_possible_frames) of that extractor
RequestedFrames(st, et, f, total, mf) ==
  Min(mf, MaxPossibleFrames(st, et, f, total))

\* its frame_indices, when the division of its line 76 is defined
FrameIndicesMain(st, et, f, total, mf) ==
  LET available == AvailableFrames(st, et, f, total)
      requested == RequestedFrames(st, et, f, total, mf)
  IN  IF requested >= available
      THEN Prefix(Range(StartFrame(st, et, f), EndFrame(st, et, f, total), 1),
                  available)
      ELSE Prefix(Range(StartFrame(st, et, f), EndFrame(st, et, f, total),
                        available \div requested),
                  requested)

Times == {Sentinel} \cup (0 .. MaxTick)

ExtractInit ==
  /\ fps \in FpsValues
  /\ total_frames \in 1 .. MaxTotalFrames
  /\ start_time \in Times
  /\ end_time \in Times
  /\ max_frames \in 0 .. MaxMaxFrames
  /\ ex_pc = "call"
  /\ cap_open = FALSE
  /\ start_frame = 0
  /\ end_frame = 0
  /\ frame_indices = <<>>
  /\ decoded = <<>>
  /\ frames = <<>>
  /\ ex_i = 0
  /\ ex_error = None

ExtractIdle ==
  /\ fps = 16
  /\ total_frames = 1
  /\ start_time = 0
  /\ end_time = 0
  /\ max_frames = 0
  /\ ex_pc = "idle"
  /\ cap_open = FALSE
  /\ start_frame = 0
  /\ end_frame = 0
  /\ frame_indices = <<>>
  /\ decoded = <<>>
  /\ frames = <<>>
  /\ ex_i = 0
  /\ ex_error = None

\* cv2.VideoCapture(video_path); raise ValueError if not cap.isOpened()
OpenVideo ==
  /\ ex_pc = "call"
  /\ \/ /\ cap_open' = TRUE
        /\ ex_pc' = "opened"
        /\ ex_error' = ex_error
     \/ /\ cap_open' = FALSE
        /\ ex_pc' = "raised"
        /\ ex_error' = "ValueError: cannot open"
  /\ UNCHANGED notExtract
  /\ UNCHANGED <<fps, total_frames, start_time, end_time, max_frames,
                 start_frame, end_frame, frame_indices, decoded, frames, ex_i>>

\* lines 39-80: the window arithmetic up to frame_indices
ComputeIndices ==
  /\ ex_pc = "opened"
  /\ start_frame' = StartFrame(start_time, end_time, fps)
  /\ end_frame' = EndFrame(start_time, end_time, fps, total_frames)
  /\ frame_indices' = FrameIndices(start_time, end_time, fps, total_frames,
                                   max_frames)
  /\ ex_pc' = "indexed"
  /\ UNCHANGED notExtract
  /\ UNCHANGED <<fps, total_frames, start_time, end_time, max_frames,
                 cap_open, decoded, frames, ex_i, ex_error>>

\* a mutant of ReadFirstFrame: an empty frame_indices is let through to the
\* loop
ReadFirstFrameSkipEmpty ==
  /\ ex_pc = "indexed"
  /\ IF frame_indices = <<>>
     THEN /\ ex_pc' = "loop"
          /\ ex_i' = 1
          /\ UNCHANGED <<cap_open, decoded, ex_error>>
     ELSE \E ret \in BOOLEAN :
            /\ decoded' = (frame_indices[1] :> ret)
            /\ IF ret
               THEN /\ ex_pc' = "loop"
                    /\ ex_i' = 1
                    /\ UNCHANGED <<cap_open, ex_error>>
               ELSE /\ cap_open' = FALSE
                    /\ ex_pc' = "raised"
                    /\ ex_error' = "ValueError: cannot read first frame"
                    /\ UNCHANGED ex_i
  /\ UNCHANGED notExtract
  /\ UNCHANGED <<fps, total_frames, start_time, end_time, max_frames,
                 start_frame, end_frame, frame_indices, frames>>

\* lines 82-86: cap.set(POS_FRAMES, frame_indices[0]); ret, first_frame = cap.read()
ReadFirstFrame ==
  /\ ex_pc = "indexed"
  /\ IF frame_indices = <<>>
     THEN \* frame_indices[0] raises IndexError; the handle is not released
          /\ ex_pc' = "raised"
          /\ ex_error' = "IndexError"
          /\ UNCHANGED <<cap_open, decoded, ex_i>>
     ELSE \E ret \in BOOLEAN :
            /\ decoded' = (frame_indices[1] :> ret)
            /\ IF ret
               THEN /\ ex_pc' = "loop"
                    /\ ex_i' = 1
                    /\ UNCHANGED <<cap_open, ex_error>>
               ELSE /\ cap_open' = FALSE
                    /\ ex_pc' = "raised"
                    /\ ex_error' = "ValueError: cannot read first frame"
                    /\ UNCHANGED ex_i
  /\ UNCHANGED notExtract
  /\ UNCHANGED <<fps, total_frames, start_time, end_time, max_frames,
                 start_frame, end_frame, frame_indices, frames>>

\* lines 99-113: one iteration of "for idx in frame_indices"
ReadFrame ==
  /\ ex_pc = "loop"
  /\ ex_i <= Len(frame_indices)
  /\ LET idx == frame_indices[ex_i] IN
     \E ret \in BOOLEAN :
       \* a read of the index already read gives what it gave
       /\ idx \in DOMAIN decoded => ret = decoded[idx]
       /\ decoded' = IF idx \in DOMAIN decoded THEN decoded
                     ELSE decoded @@ (idx :> ret)
       /\ frames' = IF ret THEN Append(frames, idx) ELSE frames
  /\ ex_i' = ex_i + 1
  /\ UNCHANGED notExtract
  /\ UNCHANGED <<fps, total_frames, start_time, end_time, max_frames, ex_pc,
                 cap_open, start_frame, end_frame, frame_indices, ex_error>>

\* lines 115-120: cap.release(); return frames
ReturnFrames ==
  /\ ex_pc = "loop"
  /\ ex_i > Len(frame_indices)
  /\ cap_open' = FALSE
  /\ ex_pc' = "returned"
  /\ UNCHANGED notExtract
  /\ UNCHANGED <<fps, total_frames, start_time, end_time, max_frames,
                 start_frame, end_frame, frame_indices, decoded, frames, ex_i,
                 ex_error>>

ExtractNext == OpenVideo \/ ComputeIndices \/ ReadFirstFrame \/ ReadFrame
                 \/ ReturnFrames

\* src/extract_sprite_frames.py lines 39-86: the window arithmetic of the
\* extractor main.py imports; the loop of its lines 90-99 follows at once
ComputeIndicesMain ==
  /\ ex_pc = "opened"
  /\ start_frame' = StartFrame(start_time, end_time, fps)
  /\ end_frame' = EndFrame(start_time, end_time, fps, total_frames)
  /\ LET available == AvailableFrames(start_time, end_time, fps, total_frames)
         requested == RequestedFrames(start_time, end_time, fps, total_frames,
                                      max_frames)
     IN  IF requested < available /\ requested = 0
         THEN \* available_frames // actual_max_frames raises; the handle is
              \* not released
              /\ ex_pc' = "raised"
              /\ ex_error' = "ZeroDivisionError"
              /\ UNCHANGED <<frame_indices, ex_i>>
         ELSE /\ frame_indices' = FrameIndicesMain(start_time, end_time, fps,
                                                   total_frames, max_frames)
              /\ ex_pc' = "loop"
              /\ ex_i' = 1
              /\ UNCHANGED ex_error
  /\ UNCHANGED notExtract
  /\ UNCHANGED <<fps, total_frames, start_time, end_time, max_frames,
                 cap_open, decoded, frames>>

\* extract_frames_from_video_segment of src/extract_sprite_frames.py: its
\* loop and its return are those of the lib extractor
MainExtractNext == OpenVideo \/ ComputeIndicesMain \/ ReadFrame \/ ReturnFrames

\* long videos at the frame rates of film and television, sampled under a
\* small max_frames
LongFpsValues == {16, 25, 30}
MaxLongFrames == 29
MaxLongCap == 2

LongExtractInit ==
  /\ fps \in LongFpsValues
  /\ total_frames \in 1 .. MaxLongFrames
  /\ start_time \in Times
  /\ end_time \in Times
  /\ max_frames \in 1 .. MaxLongCap
  /\ ex_pc = "call"
  /\ cap_open = FALSE
  /\ start_frame = 0
  /\ end_frame = 0
  /\ frame_indices = <<>>
  /\ decoded = <<>>
  /\ frames = <<>>
  /\ ex_i = 0
  /\ ex_error = None

(***************************************************************************)
(* Raster images.  An img is a record [mode, w, h, px]: px[y][x] is the  *)
(* pixel <<r, g, b, a>> of row y and column x, both counted from 1 (the    *)
(* code counts from 0); an RGB img has a = 255 everywhere, which is what *)
(* convert('RGBA') gives it.                                               *)
(***************************************************************************)
\* image.convert('RGB'): the alpha channel is dropped
ConvertRGB(img) ==
  [mode |-> "RGB", w |-> img.w, h |-> img.h,
   px |-> [y \in 1 .. img.h |-> [x \in 1 .. img.w |->
             <<img.px[y][x][1], img.px[y][x][2], img.px[y][x][3], 255>>]]]

\* image.convert('RGBA'): an RGB img becomes opaque
ConvertRGBA(img) == [img EXCEPT !.mode = "RGBA"]

\* image.crop((left, upper, right, lower)), 0-based and right/lower exclusive,
\* for a box inside the img
Crop(img, left, upper, right, lower) ==
  [mode |-> img.mode, w |-> Max(0, right - left), h |-> Max(0, lower - upper),
   px |-> [y \in 1 .. Max(0, lower - upper) |-> [x \in 1 .. Max(0, right - left) |->
             img.px[y + upper][x + left]]]]

\* the fully transparent pixel of Image.new('RGBA', size, (0, 0, 0, 0))
Transparent == <<0, 0, 0, 0>>

\* Image.new('RGBA', (w, h), (0, 0, 0, 0))
NewImage(w, h) ==
  [mode |-> "RGBA", w |-> w, h |-> h,
   px |-> [y \in 1 .. h |-> [x \in 1 .. w |-> Transparent]]]

(***************************************************************************)
(* BackgroundKeyer: remove_background.py                                   *)
(***************************************************************************)
\* np.sum((img_array - bg) ** 2, axis=2) at one pixel: bg is a
\* tuple, so the uint8 array is promoted to int64 and nothing wraps around
SqDistance(p, bg) ==
  (p[1] - bg[1]) * (p[1] - bg[1]) + (p[2] - bg[2]) * (p[2] - bg[2])
    + (p[3] - bg[3]) * (p[3] - bg[3])

\* a mutant of WithinTolerance: the square root is forgotten
WithinToleranceNoSqrt(n, t) == n <= t

\* a mutant of WithinTolerance: < instead of <=
WithinToleranceStrict(n, t) == t >= 0 /\ n < t * t

\* np.sqrt(n) <= t for an integer n >= 0 and an integer t: the float square
\* root is monotone and exact on perfect squares, so this is n <= t * t when
\* t >= 0, and false when t < 0
WithinTolerance(n, t) == t >= 0 /\ n <= t * t

\* remove_background(img, bg, tol)
remove_background(img, bg, tol) ==
  LET rgb == ConvertRGB(img) IN
  [mode |-> "RGBA", w |-> rgb.w, h |-> rgb.h,
   px |-> [y \in 1 .. rgb.h |-> [x \in 1 .. rgb.w |->
             <<rgb.px[y][x][1], rgb.px[y][x][2], rgb.px[y][x][3],
               IF WithinTolerance(SqDistance(rgb.px[y][x], bg), tol)
               THEN 0 ELSE 255>>]]]

\* a bound a or b of a Python slice [a:b] over n items, as an offset in 0 .. n
PyIndex(n, a) == IF a < 0 THEN Max(0, a + n) ELSE Min(a, n)

\* img_array[r0:r1, c0:c1].reshape(-1, 3): the pixels of the block, row by row
Block(rgb, r0, r1, c0, c1) ==
  LET top  == PyIndex(rgb.h, r0)
      left == PyIndex(rgb.w, c0)
      nr   == Max(0, PyIndex(rgb.h, r1) - top)
      nc   == Max(0, PyIndex(rgb.w, c1) - left)
  IN  [k \in 1 .. nr * nc |->
         rgb.px[top + ((k - 1) \div nc) + 1][left + ((k - 1) % nc) + 1]]

\* the sum of channel c over the pixels lo .. hi of a pixel list
RECURSIVE SumRange(_, _, _, _)
SumRange(pixels, c, lo, hi) ==
  IF lo > hi THEN 0
  ELSE IF lo = hi THEN pixels[lo][c]
  ELSE LET mid == (lo + hi) \div 2
       IN  SumRange(pixels, c, lo, mid) + SumRange(pixels, c, mid + 1, hi)

\* the sum of channel c over the pixels k .. Len(pixels) of a pixel list
SumChannel(pixels, c, k) == SumRange(pixels, c, k, Len(pixels))

corner_size == 10

\* a mutant of detect_background_color: the mean is rounded to the nearest
\* integer
detect_background_color_nearest(img) ==
  LET rgb == ConvertRGB(img)
      h == rgb.h
      w == rgb.w
      all_pixels ==
        Block(rgb, 0, corner_size, 0, corner_size)
          \o Block(rgb, 0, corner_size, w - corner_size, w)
          \o Block(rgb, h - corner_size, h, 0, corner_size)
          \o Block(rgb, h - corner_size, h, w - corner_size, w)
  IN  [c \in 1 .. 3 |->
         (2 * SumChannel(all_pixels, c, 1) + Len(all_pixels))
           \div (2 * Len(all_pixels))]

\* detect_background_color(image): the mean over the four corner blocks,
\* truncated by astype(int)
detect_background_color(img) ==
  LET rgb == ConvertRGB(img)
      h == rgb.h
      w == rgb.w
      all_pixels ==
        Block(rgb, 0, corner_size, 0, corner_size)
          \o Block(rgb, 0, corner_size, w - corner_size, w)
          \o Block(rgb, h - corner_size, h, 0, corner_size)
          \o Block(rgb, h - corner_size, h, w - corner_size, w)
  IN  [c \in 1 .. 3 |-> SumChannel(all_pixels, c, 1) \div Len(all_pixels)]

\* the sum of the three channels over rows y .. h of column x
RECURSIVE ColumnSum(_, _, _)
ColumnSum(rgb, x, y) ==
  IF y > rgb.h THEN 0
  ELSE rgb.px[y][x][1] + rgb.px[y][x][2] + rgb.px[y][x][3] + ColumnSum(rgb, x, y + 1)

black_threshold == 30

\* the calibration window of the border detection
InCalibrationWindow(w, h) == 1270 <= w /\ w <= 1290 /\ 710 <= h /\ h <= 770

\* np.where(col_brightness > black_threshold)[0]: the 0-based columns whose
\* mean over rows and channels exceeds the threshold
NonBlackCols(rgb) ==
  {x \in 0 .. rgb.w - 1 : ColumnSum(rgb, x + 1, 1) > black_threshold * (rgb.h * 3)}

SetMin(S) == CHOOSE m \in S : \A n \in S : m <= n
SetMax(S) == CHOOSE m \in S : \A n \in S : m >= n

\* detect_and_remove_black_borders(img)
detect_and_remove_black_borders(img) ==
  LET rgb == ConvertRGB(img)
      non_black_cols == NonBlackCols(rgb)
  IN  IF ~InCalibrationWindow(rgb.w, rgb.h) THEN img
      ELSE IF non_black_cols = {} THEN img
      ELSE IF SetMin(non_black_cols) = 0 /\ SetMax(non_black_cols) + 1 = rgb.w
           THEN img
      ELSE Crop(img, SetMin(non_black_cols), 0, SetMax(non_black_cols) + 1, rgb.h)

(***************************************************************************)
(* AutoCropper and WidthNormalizer: remove_background.py                   *)
(***************************************************************************)
\* np.where(alpha > 0): the 0-based <<row, column>> of the visible pixels
NonTransparent(img) ==
  {yx \in (0 .. img.h - 1) \X (0 .. img.w - 1) :
     img.px[yx[1] + 1][yx[2] + 1][4] > 0}

\* a mutant of auto_crop_transparent: the padding is taken off the box
auto_crop_transparent_inset(img, padding) ==
  LET nt == NonTransparent(img)
      ys == {yx[1] : yx \in nt}
      xs == {yx[2] : yx \in nt}
  IN  IF img.mode # "RGBA" THEN img
      ELSE IF nt = {} THEN img
      ELSE Crop(img,
                Min(img.w, SetMin(xs) + padding),
                Min(img.h, SetMin(ys) + padding),
                Max(0, SetMax(xs) + 1 - padding),
                Max(0, SetMax(ys) + 1 - padding))

\* a mutant of auto_crop_transparent: the right and lower bounds of the box
\* are taken inclusive (the + 1 is missing)
auto_crop_transparent_inclusive(img, padding) ==
  LET nt == NonTransparent(img)
      ys == {yx[1] : yx \in nt}
      xs == {yx[2] : yx \in nt}
  IN  IF img.mode # "RGBA" THEN img
      ELSE IF nt = {} THEN img
      ELSE Crop(img,
                Max(0, SetMin(xs) - padding),
                Max(0, SetMin(ys) - padding),
                Min(img.w, SetMax(xs) + padding),
                Min(img.h, SetMax(ys) + padding))

\* a mutant of auto_crop_transparent: a fully transparent image is cropped to
\* the empty box
auto_crop_transparent_unguarded(img, padding) ==
  LET nt == NonTransparent(img)
      ys == {yx[1] : yx \in nt}
      xs == {yx[2] : yx \in nt}
  IN  IF img.mode # "RGBA" THEN img
      ELSE IF nt = {} THEN Crop(img, 0, 0, 0, 0)
      ELSE Crop(img,
                Max(0, SetMin(xs) - padding),
                Max(0, SetMin(ys) - padding),
                Min(img.w, SetMax(xs) + 1 + padding),
                Min(img.h, SetMax(ys) + 1 + padding))

\* auto_crop_transparent(img, padding)
auto_crop_transparent(img, padding) ==
  LET nt == NonTransparent(img)
      ys == {yx[1] : yx \in nt}
      xs == {yx[2] : yx \in nt}
  IN  IF img.mode # "RGBA" THEN img
      ELSE IF nt = {} THEN img
      ELSE Crop(img,
                Max(0, SetMin(xs) - padding),
                Max(0, SetMin(ys) - padding),
                Min(img.w, SetMax(xs) + 1 + padding),
                Min(img.h, SetMax(ys) + 1 + padding))

\* Pillow's rounding division by 255
Div255(a) == (((a + 128) \div 256) + (a + 128)) \div 256

\* Pillow's blend of one channel under a mask value
Blend(mask, dst, src) == Div255(dst * (255 - mask) + src * mask)

\* dest.paste(img, (x_offset, 0), mask): with an RGBA mask every channel is
\* blended by the mask's alpha; with mask None the box is overwritten
PasteMasked(dest, img, x_offset, masked) ==
  [dest EXCEPT !.px =
     [y \in 1 .. dest.h |-> [x \in 1 .. dest.w |->
        IF y <= img.h /\ x > x_offset /\ x <= x_offset + img.w
        THEN IF masked
             THEN [c \in 1 .. 4 |->
                     Blend(img.px[y][x - x_offset][4], dest.px[y][x][c],
                           img.px[y][x - x_offset][c])]
             ELSE img.px[y][x - x_offset]
        ELSE dest.px[y][x]]]]

\* a mutant of TargetWidth: the width of the last img
TargetWidthLast(images) == images[Len(images)].w

\* a mutant of TargetWidth: the width of the first img
TargetWidthFirst(images) == images[1].w

\* target_width = max(img.width for img in images)
TargetWidth(images) == SetMax({images[k].w : k \in 1 .. Len(images)})

\* a mutant of NormalizeOne: a narrow img is appended as it is
NormalizeOneAsIs(img, target_width) == img

\* one img of normalize_width's loop
NormalizeOne(img, target_width) ==
  IF img.w < target_width
  THEN PasteMasked(NewImage(target_width, img.h), img,
                   (target_width - img.w) \div 2, img.mode = "RGBA")
  ELSE img

\* normalize_width(images, target_width=None)
normalize_width(images) ==
  IF images = <<>> THEN images
  ELSE [k \in 1 .. Len(images) |-> NormalizeOne(images[k], TargetWidth(images))]

\* largest width, height and padding given to auto_crop_transparent
MaxCropW == 3
MaxCropH == 2
MaxCropPad == 1
\* the alpha values of the visible pixels of those images
CropAlphas == {1, 255}

\* the images of width w and height h given to auto_crop_transparent: the
\* pixel at column x and row y is <<x, y, 0, alpha>>, so that every pixel is
\* told apart; an image without an invisible pixel is also given in mode RGB
CropImages(w, h) ==
  {[mode |-> "RGBA", w |-> w, h |-> h,
    px |-> [y \in 1 .. h |-> [x \in 1 .. w |->
              <<x, y, 0, IF visible[y][x] THEN a ELSE 0>>]]] :
     visible \in [1 .. h -> [1 .. w -> BOOLEAN]], a \in CropAlphas}
  \cup
  {[mode |-> "RGB", w |-> w, h |-> h,
    px |-> [y \in 1 .. h |-> [x \in 1 .. w |-> <<x, y, 0, 255>>]]]}

CropInit ==
  /\ \E w \in 1 .. MaxCropW : \E h \in 1 .. MaxCropH :
       crop_image \in CropImages(w, h)
  /\ crop_pad \in 0 .. MaxCropPad
  /\ crop_result = NoImage
  /\ crop_again = NoImage

CropIdle ==
  /\ crop_image = NoImage
  /\ crop_pad = 0
  /\ crop_result = NoImage
  /\ crop_again = NoImage

AutoCropCall ==
  /\ crop_image # NoImage
  /\ crop_result = NoImage
  /\ crop_result' = auto_crop_transparent(crop_image, crop_pad)
  /\ UNCHANGED <<crop_image, crop_pad, crop_again>>
  /\ UNCHANGED notCrop

\* auto_crop_transparent called on its own result with the same padding
AutoCropAgain ==
  /\ crop_result # NoImage
  /\ crop_again = NoImage
  /\ crop_again' = auto_crop_transparent(crop_result, crop_pad)
  /\ UNCHANGED <<crop_image, crop_pad, crop_result>>
  /\ UNCHANGED notCrop

CropNext ==
  \/ AutoCropCall
  \/ AutoCropAgain

\* largest number of images and largest width given to normalize_width
MaxNormImages == 3
MaxNormW == 3

\* the k-th image of a list given to normalize_width: one row whose pixel at
\* column x is <<k, x, 0, alpha>>
NormImage(k, w, mode) ==
  [mode |-> mode, w |-> w, h |-> 1,
   px |-> [y \in 1 .. 1 |-> [x \in 1 .. w |->
             <<k, x, 0, IF mode = "RGBA" THEN 128 ELSE 255>>]]]

\* the lists of n images
NormInputs(n) ==
  {[k \in 1 .. n |-> NormImage(k, wd[k], md[k])] :
     wd \in [1 .. n -> 1 .. MaxNormW], md \in [1 .. n -> {"RGB", "RGBA"}]}

NormInit ==
  /\ \E n \in 0 .. MaxNormImages : norm_images \in NormInputs(n)
  /\ norm_pc = "call"
  /\ norm_result = <<>>

NormIdle ==
  /\ norm_images = <<>>
  /\ norm_pc = "idle"
  /\ norm_result = <<>>

NormalizeWidthCall ==
  /\ norm_pc = "call"
  /\ norm_result' = normalize_width(norm_images)
  /\ norm_pc' = "returned"
  /\ UNCHANGED norm_images
  /\ UNCHANGED notNorm

NormNext == NormalizeWidthCall

\* largest width and height of the images given to remove_background
MaxKeyW == 2
MaxKeyH == 1
\* the pixels of those images
KeyPixels == {<<0, 0, 0, 255>>, <<255, 255, 255, 255>>, <<0, 255, 0, 255>>,
              <<3, 251, 0, 0>>}
\* the background colours and tolerances tried
KeyBgColors == {<<0, 0, 0>>, <<0, 255, 0>>, <<255, 255, 255>>}
KeyTolerances == {-1, 0, 5, 441, 442}

\* the images of width w and height h over KeyPixels
KeyImages(w, h) ==
  {[mode |-> IF \A y \in 1 .. h : \A x \in 1 .. w : px[y][x][4] = 255
             THEN "RGB" ELSE "RGBA",
    w |-> w, h |-> h, px |-> px] : px \in [1 .. h -> [1 .. w -> KeyPixels]]}

KeyInit ==
  /\ \E w \in 1 .. MaxKeyW : \E h \in 1 .. MaxKeyH : key_image \in KeyImages(w, h)
  /\ key_bg_color \in KeyBgColors
  /\ key_tolerance \in KeyTolerances
  /\ key_result = NoImage

KeyIdle ==
  /\ key_image = NoImage
  /\ key_bg_color = <<0, 0, 0>>
  /\ key_tolerance = 0
  /\ key_result = NoImage

RemoveBackgroundCall ==
  /\ key_image # NoImage
  /\ key_result = NoImage
  /\ key_result' = remove_background(key_image, key_bg_color, key_tolerance)
  /\ UNCHANGED <<key_image, key_bg_color, key_tolerance>>
  /\ UNCHANGED notKey

KeyNext == RemoveBackgroundCall

(***************************************************************************)
(* SheetComposer: create_sprite_sheet of lib/extract_sprite_frames.py      *)
(***************************************************************************)
\* frame_size = None
NoSize == <<>>

\* a pixel of a resampled image: its value is not computed by the model
ResampledPixel == <<-1, -1, -1, -1>>

\* frame.resize(frame_size, LANCZOS): a copy when the size is the frame's
\* own, a resampled image of the requested size otherwise
Resize(frame, size) ==
  IF <<frame.w, frame.h>> = size THEN frame
  ELSE [mode |-> frame.mode, w |-> size[1], h |-> size[2],
        px |-> [y \in 1 .. size[2] |-> [x \in 1 .. size[1] |-> ResampledPixel]]]

\* sheet.paste(frame, (x_offset, 0)): the frame's box, clipped to the sheet,
\* is overwritten (no mask)
Paste(sheet, frame, x_offset) ==
  [sheet EXCEPT !.px =
     [y \in 1 .. sheet.h |-> [x \in 1 .. sheet.w |->
        IF y <= frame.h /\ x > x_offset /\ x <= x_offset + frame.w
        THEN frame.px[y][x - x_offset]
        ELSE sheet.px[y][x]]]]

\* a mutant of SheetWidth: width and height of frame_size are swapped
SheetWidthSwapped(frame_size, n) == frame_size[2] * n

\* sheet_width = frame_size[0] * len(frames)
SheetWidth(frame_size, n) == frame_size[1] * n

\* sheet_height = frame_size[1]
SheetHeight(frame_size) == frame_size[2]

\* a mutant of SlotOffset: the slots are stepped by the frame height
SlotOffsetByHeight(i, frame_size) == i * frame_size[2]

\* x_offset = i * frame_size[0]
SlotOffset(i, frame_size) == i * frame_size[1]

\* the loop "for i, frame in enumerate(frames)" from iteration i (0-based) on
RECURSIVE PasteFrames(_, _, _, _)
PasteFrames(sheet, fs, frame_size, i) ==
  IF i >= Len(fs) THEN sheet
  ELSE PasteFrames(Paste(sheet,
                         IF fs[i + 1].mode # "RGBA" THEN ConvertRGBA(fs[i + 1])
                         ELSE fs[i + 1],
                         SlotOffset(i, frame_size)),
                   fs, frame_size, i + 1)

\* largest number of frames, width and height given to create_sprite_sheet
MaxSheetFrames == 2
MaxSheetW == 2
MaxSheetH == 2

\* the k-th input frame: its pixel at column x and row y is <<k, x, y, a>>,
\* so that every pixel of every frame is told apart
SheetImage(k, w, h, mode) ==
  [mode |-> mode, w |-> w, h |-> h,
   px |-> [y \in 1 .. h |-> [x \in 1 .. w |->
             <<k, x, y, IF mode = "RGBA" THEN 128 ELSE 255>>]]]

SheetSizes == (1 .. MaxSheetW) \X (1 .. MaxSheetH)

\* the lists of n frames
SheetInputs(n) ==
  {[k \in 1 .. n |-> SheetImage(k, sz[k][1], sz[k][2], md[k])] :
     sz \in [1 .. n -> SheetSizes], md \in [1 .. n -> {"RGB", "RGBA"}]}

SheetInit ==
  /\ \E n \in 0 .. MaxSheetFrames : sheet_frames \in SheetInputs(n)
  /\ sheet_frame_size \in {NoSize} \cup SheetSizes
  /\ sheet_pc = "call"
  /\ sprite_sheet = NoImage
  /\ sheet_out_frames = <<>>

SheetIdle ==
  /\ sheet_frames = <<>>
  /\ sheet_frame_size = NoSize
  /\ sheet_pc = "idle"
  /\ sprite_sheet = NoImage
  /\ sheet_out_frames = <<>>

\* the sheet and the frame list create_sprite_sheet computes from lines 136 on
ComposeSheet(fs, frame_size) ==
  PasteFrames(NewImage(SheetWidth(frame_size, Len(fs)), SheetHeight(frame_size)),
              fs, frame_size, 0)

\* create_sprite_sheet(frames, frame_size)
CreateSpriteSheet ==
  /\ sheet_pc = "call"
  /\ IF sheet_frame_size = NoSize
     THEN IF sheet_frames # <<>>
          THEN /\ sprite_sheet' = ComposeSheet(sheet_frames,
                                   <<sheet_frames[1].w, sheet_frames[1].h>>)
               /\ sheet_out_frames' = sheet_frames
               /\ sheet_pc' = "returned"
          ELSE \* raise ValueError
               /\ sheet_pc' = "raised"
               /\ UNCHANGED <<sprite_sheet, sheet_out_frames>>
     ELSE LET resized == [k \in 1 .. Len(sheet_frames) |->
                            Resize(sheet_frames[k], sheet_frame_size)]
          IN  /\ sprite_sheet' = ComposeSheet(resized, sheet_frame_size)
              /\ sheet_out_frames' = resized
              /\ sheet_pc' = "returned"
  /\ UNCHANGED <<sheet_frames, sheet_frame_size>>
  /\ UNCHANGED notSheet

SheetNext == CreateSpriteSheet

(***************************************************************************)
(* BatchOrchestrator: process_directory of remove_background.py            *)
(***************************************************************************)
\* largest number of image files in input_dir
MaxFiles == 2

Green == <<0, 255, 0, 255>>
Red == <<255, 0, 0, 255>>
Blue == <<0, 0, 255, 255>>

\* an RGB image file given by its rows of pixels
RGBImage(rows) ==
  [mode |-> "RGB", w |-> Len(rows[1]), h |-> Len(rows), px |-> rows]

\* the images the files of input_dir hold
BatchImages ==
  {RGBImage(<< <<Green, Red, Green>>, <<Green, Red, Green>> >>),
   RGBImage(<< <<Green, Green, Blue, Blue, Green, Green>> >>),
   RGBImage(<< <<Green, Red, Green>>, <<Green, Green, Green>> >>)}

\* the calls tried: <<tolerance, num_workers, auto_crop, crop_padding>>
BatchCalls ==
  {<<30, 1, FALSE, 0>>, <<30, 1, TRUE, 0>>, <<30, 2, TRUE, 1>>,
   <<180, 2, FALSE, 0>>, <<180, 2, TRUE, 0>>, <<180, 1, TRUE, 1>>}

\* the orders in which os.listdir can give the filenames 1 .. n
Listings(n) ==
  {l \in [1 .. n -> 1 .. n] : \A a, b \in 1 .. n : a # b => l[a] # l[b]}

NoReport == <<>>
NoColor == <<>>

BatchInit ==
  /\ \E n \in 0 .. MaxFiles :
       /\ input_dir \in [1 .. n -> BatchImages]
       /\ image_files \in Listings(n)
  /\ \E call \in BatchCalls :
       /\ tolerance = call[1]
       /\ num_workers = call[2]
       /\ auto_crop = call[3]
       /\ crop_padding = call[4]
  /\ bd_pc = "call"
  /\ bd_k = 0
  /\ image = NoImage
  /\ bg_color = NoColor
  /\ result = NoImage
  /\ processed_images = <<>>
  /\ image_filenames = <<>>
  /\ normalized_images = <<>>
  /\ bd_j = 0
  /\ output_dir = <<>>
  /\ success_count = 0
  /\ fail_count = 0
  /\ report = NoReport
  /\ raised = {}
  /\ save_raised = {}

BatchIdle ==
  /\ input_dir = <<>>
  /\ image_files = <<>>
  /\ tolerance = 30
  /\ num_workers = 1
  /\ auto_crop = TRUE
  /\ crop_padding = 0
  /\ bd_pc = "idle"
  /\ bd_k = 0
  /\ image = NoImage
  /\ bg_color = NoColor
  /\ result = NoImage
  /\ processed_images = <<>>
  /\ image_filenames = <<>>
  /\ normalized_images = <<>>
  /\ bd_j = 0
  /\ output_dir = <<>>
  /\ success_count = 0
  /\ fail_count = 0
  /\ report = NoReport
  /\ raised = {}
  /\ save_raised = {}

batchArgs == <<input_dir, image_files, tolerance, num_workers, auto_crop,
               crop_padding>>
batchSaveVars == <<normalized_images, bd_j, output_dir, success_count,
                   fail_count, report, save_raised>>

\* the positions at which the pipeline of the file image_files[bd_k] is under way
InTry == {"open", "border", "detect", "key", "crop", "append"}

\* lines 306-320: the listing; return when it is empty
EnumerateFiles ==
  /\ bd_pc = "call"
  /\ IF image_files = <<>>
     THEN bd_pc' = "done" /\ bd_k' = bd_k
     ELSE bd_pc' = "next" /\ bd_k' = 1
  /\ UNCHANGED <<batchArgs, image, bg_color, result, processed_images,
                 image_filenames, batchSaveVars, raised>>
  /\ UNCHANGED notBatch

\* line 326: the for loop takes the next filename and enters the try block
NextFile ==
  /\ bd_pc = "next"
  /\ bd_k <= Len(image_files)
  /\ bd_pc' = "open"
  /\ UNCHANGED <<batchArgs, bd_k, image, bg_color, result, processed_images,
                 image_filenames, batchSaveVars, raised>>
  /\ UNCHANGED notBatch

\* line 330: image = Image.open(input_path)
OpenImage ==
  /\ bd_pc = "open"
  /\ image' = input_dir[image_files[bd_k]]
  /\ bd_pc' = "border"
  /\ UNCHANGED <<batchArgs, bd_k, bg_color, result, processed_images,
                 image_filenames, batchSaveVars, raised>>
  /\ UNCHANGED notBatch

\* line 333: image = detect_and_remove_black_borders(image)
BorderCrop ==
  /\ bd_pc = "border"
  /\ image' = detect_and_remove_black_borders(image)
  /\ bd_pc' = "detect"
  /\ UNCHANGED <<batchArgs, bd_k, bg_color, result, processed_images,
                 image_filenames, batchSaveVars, raised>>
  /\ UNCHANGED notBatch

\* line 336: bg_color = detect_background_color(image)
DetectBackground ==
  /\ bd_pc = "detect"
  /\ bg_color' = detect_background_color(image)
  /\ bd_pc' = "key"
  /\ UNCHANGED <<batchArgs, bd_k, image, result, processed_images,
                 image_filenames, batchSaveVars, raised>>
  /\ UNCHANGED notBatch

\* line 339: result = remove_background(image, bg_color, tolerance)
KeyImage ==
  /\ bd_pc = "key"
  /\ result' = remove_background(image, bg_color, tolerance)
  /\ bd_pc' = IF auto_crop THEN "crop" ELSE "append"
  /\ UNCHANGED <<batchArgs, bd_k, image, bg_color, processed_images,
                 image_filenames, batchSaveVars, raised>>
  /\ UNCHANGED notBatch

\* lines 342-343: result = auto_crop_transparent(result, padding=crop_padding)
CropImage ==
  /\ bd_pc = "crop"
  /\ result' = auto_crop_transparent(result, crop_padding)
  /\ bd_pc' = "append"
  /\ UNCHANGED <<batchArgs, bd_k, image, bg_color, processed_images,
                 image_filenames, batchSaveVars, raised>>
  /\ UNCHANGED notBatch

\* lines 345-346: the result and its filename are appended
AppendResult ==
  /\ bd_pc = "append"
  /\ processed_images' = Append(processed_images, result)
  /\ image_filenames' = Append(image_filenames, image_files[bd_k])
  /\ bd_pc' = "next"
  /\ bd_k' = bd_k + 1
  /\ image' = NoImage
  /\ bg_color' = NoColor
  /\ result' = NoImage
  /\ UNCHANGED <<batchArgs, batchSaveVars, raised>>
  /\ UNCHANGED notBatch

\* a mutant of StageRaises: no try/except, the exception ends the batch
StageRaisesAbort ==
  /\ bd_pc \in {"open", "border", "detect", "key", "crop"}
  /\ raised' = raised \cup {image_files[bd_k]}
  /\ bd_pc' = "done"
  /\ image' = NoImage
  /\ bg_color' = NoColor
  /\ result' = NoImage
  /\ UNCHANGED <<batchArgs, bd_k, processed_images, image_filenames,
                 batchSaveVars>>
  /\ UNCHANGED notBatch

\* lines 348-349: the statement about to run (open, border crop, background
\* detection, keying, content crop) raises; except prints the failure and the
\* loop goes on
StageRaises ==
  /\ bd_pc \in {"open", "border", "detect", "key", "crop"}
  /\ raised' = raised \cup {image_files[bd_k]}
  /\ bd_pc' = "next"
  /\ bd_k' = bd_k + 1
  /\ image' = NoImage
  /\ bg_color' = NoColor
  /\ result' = NoImage
  /\ UNCHANGED <<batchArgs, processed_images, image_filenames, batchSaveVars>>
  /\ UNCHANGED notBatch

\* lines 351-362: after the loop; return when nothing succeeded, else
\* normalized_images = normalize_width(processed_images)
NormalizeAll ==
  /\ bd_pc = "next"
  /\ bd_k > Len(image_files)
  /\ IF processed_images = <<>>
     THEN /\ bd_pc' = "done"
          /\ UNCHANGED <<normalized_images, bd_j>>
     ELSE /\ normalized_images' = normalize_width(processed_images)
          /\ bd_pc' = "save"
          /\ bd_j' = 1
  /\ UNCHANGED <<batchArgs, bd_k, image, bg_color, result, processed_images,
                 image_filenames, output_dir, success_count, fail_count,
                 report, raised, save_raised>>
  /\ UNCHANGED notBatch

\* a mutant of SaveImage: the save loop zips image_files, not image_filenames
SaveImageByListing ==
  /\ bd_pc = "save"
  /\ bd_j <= Min(Len(image_filenames), Len(normalized_images))
  /\ \/ /\ output_dir' = [f \in DOMAIN output_dir \cup {image_files[bd_j]} |->
                            IF f = image_files[bd_j]
                            THEN normalized_images[bd_j] ELSE output_dir[f]]
        /\ success_count' = success_count + 1
        /\ UNCHANGED <<fail_count, save_raised>>
     \/ /\ fail_count' = fail_count + 1
        /\ save_raised' = save_raised \cup {image_files[bd_j]}
        /\ UNCHANGED <<output_dir, success_count>>
  /\ bd_j' = bd_j + 1
  /\ UNCHANGED <<input_dir, image_files, tolerance, num_workers, auto_crop,
                 crop_padding, bd_pc, bd_k, image, bg_color, result,
                 processed_images, image_filenames, normalized_images, report,
                 raised>>
  /\ UNCHANGED notBatch

\* lines 364-372: one iteration of the save loop over
\* zip(image_filenames, normalized_images); image.save may raise
SaveImage ==
  /\ bd_pc = "save"
  /\ bd_j <= Min(Len(image_filenames), Len(normalized_images))
  /\ \/ /\ output_dir' = [f \in DOMAIN output_dir \cup {image_filenames[bd_j]} |->
                            IF f = image_filenames[bd_j]
                            THEN normalized_images[bd_j] ELSE output_dir[f]]
        /\ success_count' = success_count + 1
        /\ UNCHANGED <<fail_count, save_raised>>
     \/ /\ fail_count' = fail_count + 1
        /\ save_raised' = save_raised \cup {image_filenames[bd_j]}
        /\ UNCHANGED <<output_dir, success_count>>
  /\ bd_j' = bd_j + 1
  /\ UNCHANGED <<input_dir, image_files, tolerance, num_workers, auto_crop,
                 crop_padding, bd_pc, bd_k, image, bg_color, result,
                 processed_images, image_filenames, normalized_images, report,
                 raised>>
  /\ UNCHANGED notBatch

\* lines 374-379: the counts are printed
PrintReport ==
  /\ bd_pc = "save"
  /\ bd_j > Min(Len(image_filenames), Len(normalized_images))
  /\ report' = <<success_count, fail_count>>
  /\ bd_pc' = "done"
  /\ UNCHANGED <<batchArgs, bd_k, image, bg_color, result, processed_images,
                 image_filenames, normalized_images, bd_j, output_dir,
                 success_count, fail_count, raised, save_raised>>
  /\ UNCHANGED notBatch

BatchNext ==
  \/ EnumerateFiles
  \/ NextFile
  \/ OpenImage
  \/ BorderCrop
  \/ DetectBackground
  \/ KeyImage
  \/ CropImage
  \/ AppendResult
  \/ StageRaises
  \/ NormalizeAll
  \/ SaveImage
  \/ PrintReport

(***************************************************************************)
(* The chain of full_pipeline: snowweave.py lines 354-383                  *)
(***************************************************************************)
\* a filename is the list of its character codes
FramePrefix == <<102, 114, 97, 109, 101, 95>>     \* "frame_"
PngSuffix == <<46, 112, 110, 103>>                \* ".png"

\* the decimal digits of i >= 0, as character codes
RECURSIVE DecimalDigits(_)
DecimalDigits(i) ==
  IF i < 10 THEN <<48 + i>> ELSE Append(DecimalDigits(i \div 10), 48 + (i % 10))

pad_width == 3

\* format(i, "03d"): the digits of i, zero-padded on the left to pad_width
ZeroPadded(i) ==
  LET ds == DecimalDigits(i) IN
  [k \in 1 .. Max(0, pad_width - Len(ds)) |-> 48] \o ds

\* f"frame_{i:03d}.png"
FrameName(i) == FramePrefix \o ZeroPadded(i) \o PngSuffix

\* f.endswith('.png')
EndsWithPng(name) ==
  /\ Len(name) >= Len(PngSuffix)
  /\ SubSeq(name, Len(name) - Len(PngSuffix) + 1, Len(name)) = PngSuffix

\* a < b for Python strings: the order of the first differing character, a
\* proper prefix being smaller
RECURSIVE StrLess(_, _, _)
StrLess(a, b, k) ==
  IF k > Len(a) THEN k <= Len(b)
  ELSE IF k > Len(b) THEN FALSE
  ELSE IF a[k] # b[k] THEN a[k] < b[k]
  ELSE StrLess(a, b, k + 1)

\* sorted(names) for a list of distinct strings
RECURSIVE Sorted(_)
Sorted(names) ==
  IF Len(names) <= 1 THEN names
  ELSE LET pivot == names[(Len(names) + 1) \div 2]
       IN  Sorted(SelectSeq(names, LAMBDA x : StrLess(x, pivot, 1)))
             \o <<pivot>>
             \o Sorted(SelectSeq(names, LAMBDA x : StrLess(pivot, x, 1)))

\* largest small number of extracted frames, number of frame counts tried from
\* 10^pad_width on, and number of leading files that may fail in the batch
MaxPipeFrames == 4
MaxPipeOver == 1
MaxPipeFailing == 3

\* 10^pad_width: the first index format(i, "03d") writes with more digits
PadLimit == 10 ^ pad_width

PipeFrameCounts ==
  (1 .. MaxPipeFrames) \cup (PadLimit .. PadLimit + MaxPipeOver)

\* <<start_frame, frame_interval>> of the extraction
PipeSamplings == {<<0, 1>>, <<3, 2>>}

\* the directory entry with the given name, in a listing of [name, frame]
Entry(dir, name) == CHOOSE k \in 1 .. Len(dir) : dir[k].name = name

PipeInit ==
  /\ fp_pc = "extract"
  /\ fp_frames = <<>>
  /\ frames_dir = <<>>
  /\ original_sheet = <<>>
  /\ nobg_dir = <<>>
  /\ nobg_files = <<>>
  /\ final_sheet = <<>>

PipeIdle ==
  /\ fp_pc = "idle"
  /\ fp_frames = <<>>
  /\ frames_dir = <<>>
  /\ original_sheet = <<>>
  /\ nobg_dir = <<>>
  /\ nobg_files = <<>>
  /\ final_sheet = <<>>

\* lines 354-359: frames = extract_frames_from_video_segment(...): a
\* non-empty list of frames at ascending source indices
ExtractFrames ==
  /\ fp_pc = "extract"
  /\ \E n \in PipeFrameCounts : \E sm \in PipeSamplings :
       fp_frames' = [k \in 1 .. n |-> sm[1] + (k - 1) * sm[2]]
  /\ fp_pc' = "save_frames"
  /\ UNCHANGED <<frames_dir, original_sheet, nobg_dir, nobg_files, final_sheet>>
  /\ UNCHANGED notPipe

\* lines 361-366: save_individual_frames(frames, frames_dir), then the sheet
\* of the extracted frames
SaveIndividualFrames ==
  /\ fp_pc = "save_frames"
  /\ frames_dir' = [k \in 1 .. Len(fp_frames) |->
                      [name |-> FrameName(k - 1), frame |-> fp_frames[k]]]
  /\ original_sheet' = fp_frames
  /\ fp_pc' = "process"
  /\ UNCHANGED <<fp_frames, nobg_dir, nobg_files, final_sheet>>
  /\ UNCHANGED notPipe

\* lines 368-376: process_directory(frames_dir, nobg_dir): every file whose
\* pipeline and save succeed is written under its own name
ProcessDirectory ==
  /\ fp_pc = "process"
  /\ \E failing \in SUBSET (1 .. Min(Len(frames_dir), MaxPipeFailing)) :
       nobg_dir' = SelectSeq(frames_dir,
                             LAMBDA e : \A k \in failing : frames_dir[k].name # e.name)
  /\ fp_pc' = "compose"
  /\ UNCHANGED <<fp_frames, frames_dir, original_sheet, nobg_files, final_sheet>>
  /\ UNCHANGED notPipe

\* lines 378-383: the sorted listing of nobg_dir, and the final sheet; with no
\* file create_sprite_sheet raises
ComposeFinalSheet ==
  /\ fp_pc = "compose"
  /\ LET listing == SelectSeq([k \in 1 .. Len(nobg_dir) |-> nobg_dir[k].name],
                              EndsWithPng)
     IN  /\ nobg_files' = Sorted(listing)
         /\ IF listing = <<>>
            THEN /\ fp_pc' = "raised"
                 /\ final_sheet' = final_sheet
            ELSE /\ fp_pc' = "done"
                 /\ final_sheet' = [k \in 1 .. Len(listing) |->
                                      nobg_dir[Entry(nobg_dir, nobg_files'[k])].frame]
  /\ UNCHANGED <<fp_frames, frames_dir, original_sheet, nobg_dir>>
  /\ UNCHANGED notPipe

PipeNext ==
  \/ ExtractFrames
  \/ SaveIndividualFrames
  \/ ProcessDirectory
  \/ ComposeFinalSheet

(***************************************************************************)
(* Black-border calibration on full-size frames:                           *)
(* lib/extract_sprite_frames.py detect_black_border_params, apply_crop and *)
(* the frame loop; remove_background.py detect_and_remove_black_borders.   *)
(* A full-size frame is a record [w, h, bands]: bands is the list of       *)
(* vertical stripes <<n, c>>, left to right, n columns of the RGB colour   *)
(* c each, so that a 1280x720 frame is a handful of stripes.               *)
(***************************************************************************)
NoParams == <<>>

Black == <<0, 0, 0>>
Bright == <<200, 180, 160>>
Dark == <<10, 10, 10>>
Dim == <<30, 30, 30>>

\* the colour of column x (0-based) of a stripe list, from stripe k on
RECURSIVE StripeColour(_, _, _)
StripeColour(bands, k, x) ==
  IF x < bands[k][1] THEN bands[k][2]
  ELSE StripeColour(bands, k + 1, x - bands[k][1])

\* the column at which stripe k of a stripe list starts
RECURSIVE StripeStart(_, _)
StripeStart(bands, k) ==
  IF k = 1 THEN 0 ELSE StripeStart(bands, k - 1) + bands[k - 1][1]

\* np.mean(img_array, axis=(0, 2))[x] > black_threshold for a column of the
\* one colour c: its mean is (r + g + b) / 3
IsNonBlack(c) == c[1] + c[2] + c[3] > 3 * black_threshold

ColumnIsNonBlack(frame, x) == IsNonBlack(StripeColour(frame.bands, 1, x))

\* np.where(col_brightness > black_threshold)[0], stripe by stripe: the
\* stripes whose columns it lists
NonBlackStripes(frame) ==
  {k \in DOMAIN frame.bands : IsNonBlack(frame.bands[k][2])}

\* non_black_cols[0] and non_black_cols[-1]
FirstCol(frame, cols) == StripeStart(frame.bands, SetMin(cols))
LastCol(frame, cols) ==
  StripeStart(frame.bands, SetMax(cols)) + frame.bands[SetMax(cols)][1] - 1

\* the stripes of columns [left, right), stripe k starting at column start
RECURSIVE StripesWithin(_, _, _, _, _)
StripesWithin(bands, k, start, left, right) ==
  IF k > Len(bands) THEN <<>>
  ELSE LET lo == Max(start, left)
           hi == Min(start + bands[k][1], right)
       IN  (IF hi > lo THEN << <<hi - lo, bands[k][2]>> >> ELSE <<>>)
             \o StripesWithin(bands, k + 1, start + bands[k][1], left, right)

\* image.crop((left, 0, right, h))
CropColumns(frame, left, right) ==
  [w |-> right - left, h |-> frame.h,
   bands |-> StripesWithin(frame.bands, 1, 0, left, right)]

\* detect_black_border_params with the right edge taken as the last bright
\* column itself
detect_black_border_params_last(frame) ==
  IF ~InCalibrationWindow(frame.w, frame.h) THEN NoParams
  ELSE LET cols == NonBlackStripes(frame)
       IN  IF cols = {} THEN NoParams
           ELSE LET left == FirstCol(frame, cols)
                    right == LastCol(frame, cols)
                IN  IF left = 0 /\ right = frame.w THEN NoParams
                    ELSE <<left, right>>

detect_black_border_params(frame) ==
  IF ~InCalibrationWindow(frame.w, frame.h) THEN NoParams
  ELSE LET cols == NonBlackStripes(frame)
       IN  IF cols = {} THEN NoParams
           ELSE LET left == FirstCol(frame, cols)
                    right == LastCol(frame, cols) + 1
                IN  IF left = 0 /\ right = frame.w THEN NoParams
                    ELSE <<left, right>>

apply_crop(frame, left, right) == CropColumns(frame, left, right)

\* detect_and_remove_black_borders on a full-size frame
RemoveBlackBorders(frame) ==
  IF ~InCalibrationWindow(frame.w, frame.h) THEN frame
  ELSE LET cols == NonBlackStripes(frame)
       IN  IF cols = {} THEN frame
           ELSE LET left == FirstCol(frame, cols)
                    right == LastCol(frame, cols) + 1
                IN  IF left = 0 /\ right = frame.w THEN frame
                    ELSE CropColumns(frame, left, right)

MaxBorderFrames == 2

\* frame sizes around the edges of the calibration window
BorderSizes ==
  {<<1280, 720>>, <<1270, 710>>, <<1290, 770>>, <<1280, 750>>,
   <<1290, 771>>, <<1280, 709>>, <<1291, 720>>, <<1269, 720>>}

\* the stripes of a frame of width w: a black border of lb columns on the
\* left and rb on the right around content of one kind
Stripes(w, lb, rb, kind) ==
  LET border(n) == IF n > 0 THEN << <<n, Black>> >> ELSE <<>>
      inner == w - lb - rb
      content ==
        CASE kind = "bright" -> << <<inner, Bright>> >>
          [] kind = "hollow" ->
               << <<1, Bright>>, <<inner - 2, Dark>>, <<1, Bright>> >>
          [] kind = "dim" -> << <<inner, Dim>> >>
          [] kind = "black" -> << <<inner, Black>> >>
  IN  border(lb) \o content \o border(rb)

BorderFrames(w, h) ==
  {[w |-> w, h |-> h, bands |-> Stripes(w, p[1], p[2], p[3])] :
     p \in {<<0, 0, "bright">>, <<40, 40, "bright">>,
            <<40, 0, "bright">>, <<0, 1, "hollow">>,
            <<40, 40, "hollow">>,
            <<40, 0, "dim">>, <<0, 0, "black">>}}

\* the frames one video decodes share its size
BorderInit ==
  /\ \E size \in BorderSizes : \E n \in 1 .. MaxBorderFrames :
       bp_decoded \in [1 .. n -> BorderFrames(size[1], size[2])]
  /\ crop_params = NoParams
  /\ bp_pc = "first"
  /\ bp_frames = <<>>
  /\ bp_batch = <<>>

BorderIdle ==
  /\ bp_decoded = <<>>
  /\ crop_params = NoParams
  /\ bp_pc = "idle"
  /\ bp_frames = <<>>
  /\ bp_batch = <<>>

\* the first sampled frame calibrates the crop window
DetectFirstFrame ==
  /\ bp_pc = "first"
  /\ crop_params' = detect_black_border_params(bp_decoded[1])
  /\ bp_pc' = "loop"
  /\ UNCHANGED <<bp_decoded, bp_frames, bp_batch>>
  /\ UNCHANGED notBorder

\* one pass of the frame loop, cropping with the frame's own window
CropFrameOwnWindow ==
  /\ bp_pc = "loop"
  /\ Len(bp_frames) < Len(bp_decoded)
  /\ LET pil_frame == bp_decoded[Len(bp_frames) + 1]
         own == detect_black_border_params(pil_frame)
     IN  bp_frames' =
           Append(bp_frames,
                  IF own # NoParams
                    THEN apply_crop(pil_frame, own[1], own[2])
                    ELSE pil_frame)
  /\ UNCHANGED <<bp_decoded, crop_params, bp_pc, bp_batch>>
  /\ UNCHANGED notBorder

\* one pass of the frame loop
CropFrame ==
  /\ bp_pc = "loop"
  /\ Len(bp_frames) < Len(bp_decoded)
  /\ LET pil_frame == bp_decoded[Len(bp_frames) + 1]
     IN  bp_frames' =
           Append(bp_frames,
                  IF crop_params # NoParams
                    THEN apply_crop(pil_frame, crop_params[1], crop_params[2])
                    ELSE pil_frame)
  /\ UNCHANGED <<bp_decoded, crop_params, bp_pc, bp_batch>>
  /\ UNCHANGED notBorder

ReturnCropped ==
  /\ bp_pc = "loop"
  /\ Len(bp_frames) = Len(bp_decoded)
  /\ bp_pc' = "returned"
  /\ UNCHANGED <<bp_decoded, crop_params, bp_frames, bp_batch>>
  /\ UNCHANGED notBorder

\* the same images read back from disk by process_directory: step 1 of its
\* per-file loop
BatchRemoveBorders ==
  /\ bp_pc = "returned"
  /\ Len(bp_batch) < Len(bp_decoded)
  /\ bp_batch' =
       Append(bp_batch, RemoveBlackBorders(bp_decoded[Len(bp_batch) + 1]))
  /\ UNCHANGED <<bp_decoded, crop_params, bp_pc, bp_frames>>
  /\ UNCHANGED notBorder

BorderNext ==
  \/ DetectFirstFrame
  \/ CropFrame
  \/ ReturnCropped
  \/ BatchRemoveBorders

(***************************************************************************)
(* Background detection followed by keying: detect_background_color and    *)
(* remove_background as process_image chains them (remove_background.py).  *)
(***************************************************************************)
\* largest width and height of the small images given to the detector
MaxDetW == 3
MaxDetH == 1
\* the pixel colours of those images
DetColors == {<<0, 0, 0>>, <<0, 255, 0>>, <<255, 0, 2>>}
DetTolerances == {-1, 0, 10}
\* the side of the large images: the centre lies outside every corner block
DetBigSide == 2 * corner_size + 1

DetSmallImages(w, h) ==
  {[mode |-> "RGB", w |-> w, h |-> h,
    px |-> [y \in 1 .. h |-> [x \in 1 .. w |->
              <<c[y][x][1], c[y][x][2], c[y][x][3], 255>>]]] :
     c \in [1 .. h -> [1 .. w -> DetColors]]}

\* a large image of the colour bg with one pixel of another colour at <<x, y>>
DetBigImage(bg, other, x0, y0) ==
  [mode |-> "RGB", w |-> DetBigSide, h |-> DetBigSide,
   px |-> [y \in 1 .. DetBigSide |-> [x \in 1 .. DetBigSide |->
             IF x = x0 /\ y = y0
             THEN <<other[1], other[2], other[3], 255>>
             ELSE <<bg[1], bg[2], bg[3], 255>>]]]

DetBigImages ==
  {DetBigImage(<<0, 255, 0>>, <<0, 255, 0>>, 1, 1),
   DetBigImage(<<0, 255, 0>>, <<255, 0, 2>>, corner_size + 1, corner_size + 1),
   DetBigImage(<<0, 255, 0>>, <<255, 0, 2>>, 1, 1),
   DetBigImage(<<0, 0, 0>>, <<255, 0, 2>>, DetBigSide, DetBigSide)}

DetInit ==
  /\ \/ \E w \in 1 .. MaxDetW : \E h \in 1 .. MaxDetH :
          det_image \in DetSmallImages(w, h)
     \/ det_image \in DetBigImages
  /\ det_tolerance \in DetTolerances
  /\ det_bg_color = NoColor
  /\ det_result = NoImage

DetIdle ==
  /\ det_image = NoImage
  /\ det_tolerance = 0
  /\ det_bg_color = NoColor
  /\ det_result = NoImage

\* bg_color = detect_background_color(image)
DetectBackgroundCall ==
  /\ det_image # NoImage
  /\ det_bg_color = NoColor
  /\ det_bg_color' = detect_background_color(det_image)
  /\ UNCHANGED <<det_image, det_tolerance, det_result>>
  /\ UNCHANGED notDet

\* result = remove_background(image, bg_color, tolerance)
RemoveDetectedCall ==
  /\ det_bg_color # NoColor
  /\ det_result = NoImage
  /\ det_result' = remove_background(det_image, det_bg_color, det_tolerance)
  /\ UNCHANGED <<det_image, det_tolerance, det_bg_color>>
  /\ UNCHANGED notDet

DetNext ==
  \/ DetectBackgroundCall
  \/ RemoveDetectedCall

(***************************************************************************)
(* Specifications, one per component.                                      *)
(***************************************************************************)
InitExtract == ExtractInit /\ KeyIdle /\ SheetIdle /\ BatchIdle /\ PipeIdle
               /\ CropIdle /\ NormIdle /\ BorderIdle /\ DetIdle

SpecExtract == InitExtract /\ [][ExtractNext]_vars

InitExtractMain == ExtractInit /\ KeyIdle /\ SheetIdle /\ BatchIdle /\ PipeIdle
                   /\ CropIdle /\ NormIdle /\ BorderIdle /\ DetIdle

SpecExtractMain == InitExtractMain /\ [][MainExtractNext]_vars

InitExtractLong == LongExtractInit /\ KeyIdle /\ SheetIdle /\ BatchIdle
                   /\ PipeIdle /\ CropIdle /\ NormIdle /\ BorderIdle /\ DetIdle

SpecExtractLong == InitExtractLong /\ [][ExtractNext]_vars

InitKey == KeyInit /\ ExtractIdle /\ SheetIdle /\ BatchIdle /\ PipeIdle
           /\ CropIdle /\ NormIdle /\ BorderIdle /\ DetIdle

SpecKey == InitKey /\ [][KeyNext]_vars

InitSheet == SheetInit /\ ExtractIdle /\ KeyIdle /\ BatchIdle /\ PipeIdle
             /\ CropIdle /\ NormIdle /\ BorderIdle /\ DetIdle

SpecSheet == InitSheet /\ [][SheetNext]_vars

InitBatch == BatchInit /\ ExtractIdle /\ KeyIdle /\ SheetIdle /\ PipeIdle
             /\ CropIdle /\ NormIdle /\ BorderIdle /\ DetIdle

SpecBatch == InitBatch /\ [][BatchNext]_vars

InitPipe == PipeInit /\ ExtractIdle /\ KeyIdle /\ SheetIdle /\ BatchIdle
            /\ CropIdle /\ NormIdle /\ BorderIdle /\ DetIdle

SpecPipe == InitPipe /\ [][PipeNext]_vars

InitCrop == CropInit /\ ExtractIdle /\ KeyIdle /\ SheetIdle /\ BatchIdle
            /\ PipeIdle /\ NormIdle /\ BorderIdle /\ DetIdle

SpecCrop == InitCrop /\ [][CropNext]_vars

InitNorm == NormInit /\ ExtractIdle /\ KeyIdle /\ SheetIdle /\ BatchIdle
            /\ PipeIdle /\ CropIdle /\ BorderIdle /\ DetIdle

SpecNorm == InitNorm /\ [][NormNext]_vars

InitBorder == BorderInit /\ ExtractIdle /\ KeyIdle /\ SheetIdle /\ BatchIdle
              /\ PipeIdle /\ CropIdle /\ NormIdle /\ DetIdle

SpecBorder == InitBorder /\ [][BorderNext]_vars

InitDet == DetInit /\ ExtractIdle /\ KeyIdle /\ SheetIdle /\ BatchIdle
           /\ PipeIdle /\ CropIdle /\ NormIdle /\ BorderIdle

SpecDet == InitDet /\ [][DetNext]_vars

----------------------------------------------------------------------------
\* C1: on a window with end_time > start_time inside the video, the source
\* indices of the returned frames are strictly ascending, and when
\* max_frames > 0 there are at most max_frames of them, whichever sampled
\* indices decode.
ValidWindow ==
  /\ start_time >= 0
  /\ end_time > start_time
  /\ FrameOfTime(end_time, fps) <= total_frames

C1_AscendingAndCapped ==
  (ex_pc = "returned" /\ ValidWindow) =>
    /\ \A a, b \in 1 .. Len(frames) : a < b => frames[a] < frames[b]
    /\ max_frames > 0 => Len(frames) <= max_frames

\* a call that returned capped frames with a decode gap in the middle
C1_Witness ==
  /\ ex_pc = "returned"
  /\ ValidWindow
  /\ max_frames > 0
  /\ CapApplies(start_time, end_time, fps, total_frames, max_frames)
  /\ Len(frames) >= 2
  /\ Len(frames) < Len(frame_indices)

----------------------------------------------------------------------------
\* C9: remove_background returns an image of the size of its input in which
\* a pixel's alpha is 0 if its Euclidean RGB distance to bg_color is at most
\* the tolerance and 255 otherwise.
\* the integer part of the square root of n: the largest k in lo .. hi with
\* k * k <= n, by bisection
RECURSIVE ISqrtIn(_, _, _)
ISqrtIn(n, lo, hi) ==
  IF lo = hi THEN lo
  ELSE LET mid == (lo + hi + 1) \div 2
       IN  IF mid * mid <= n THEN ISqrtIn(n, mid, hi) ELSE ISqrtIn(n, lo, mid - 1)

ISqrt(n) == ISqrtIn(n, 0, 442)

\* the Euclidean distance of the colours p and bg is at most the integer t
EuclidWithin(p, bg, t) ==
  LET d2 == (p[1] - bg[1]) ^ 2 + (p[2] - bg[2]) ^ 2 + (p[3] - bg[3]) ^ 2
      r  == ISqrt(d2)
  IN  r < t \/ (r = t /\ r * r = d2)

C9_BinaryKey ==
  key_result # NoImage =>
    /\ key_result.w = key_image.w
    /\ key_result.h = key_image.h
    /\ \A y \in 1 .. key_image.h : \A x \in 1 .. key_image.w :
         key_result.px[y][x][4] =
           IF EuclidWithin(key_image.px[y][x], key_bg_color, key_tolerance)
           THEN 0 ELSE 255

\* a keyed image with a pixel exactly at the tolerance (made transparent) and
\* a pixel beyond it (left opaque)
C9_Witness ==
  /\ key_result # NoImage
  /\ key_tolerance > 0
  /\ \E x \in 1 .. key_image.w :
       /\ SqDistance(key_image.px[1][x], key_bg_color) = key_tolerance ^ 2
       /\ key_result.px[1][x][4] = 0
  /\ \E x \in 1 .. key_image.w : key_result.px[1][x][4] = 255

AllTransparent(img) ==
  \A y \in 1 .. img.h : \A x \in 1 .. img.w : img.px[y][x][4] = 0

\* C10 as stated: any tolerance >= 441 makes every pixel transparent.
C10_Original ==
  (key_result # NoImage /\ key_tolerance >= 441) => AllTransparent(key_result)

\* C10 as amended: any tolerance >= 442 makes every pixel transparent (the
\* largest RGB distance is sqrt(3 * 255^2) = 441.67...).
C10_Tolerance442 ==
  (key_result # NoImage /\ key_tolerance >= 442) => AllTransparent(key_result)

\* white keyed against black with tolerance 442: the largest distance there is
C10_Witness ==
  /\ key_result # NoImage
  /\ key_tolerance = 442
  /\ key_bg_color = <<0, 0, 0>>
  /\ \E x \in 1 .. key_image.w : key_image.px[1][x] = <<255, 255, 255, 255>>
  /\ AllTransparent(key_result)

----------------------------------------------------------------------------
\* the frames are a non-empty sequence of images of one width and height
UniformFrames(fs) ==
  /\ fs # <<>>
  /\ \A k \in 1 .. Len(fs) : fs[k].w = fs[1].w /\ fs[k].h = fs[1].h

\* C3: for a non-empty sequence of images of one width W and height H,
\* create_sprite_sheet(frames, frame_size=None) returns an RGBA sheet of
\* width W * len(frames) and height H.
C3_SheetSize ==
  (sheet_pc = "returned" /\ sheet_frame_size = NoSize /\ UniformFrames(sheet_frames)) =>
    /\ sprite_sheet.mode = "RGBA"
    /\ sprite_sheet.w = sheet_frames[1].w * Len(sheet_frames)
    /\ sprite_sheet.h = sheet_frames[1].h
    /\ Len(sprite_sheet.px) = sheet_frames[1].h
    /\ \A y \in 1 .. sprite_sheet.h :
         Len(sprite_sheet.px[y]) = sheet_frames[1].w * Len(sheet_frames)

\* a sheet of two uniform frames that are wider than high
C3_Witness ==
  /\ sheet_pc = "returned"
  /\ sheet_frame_size = NoSize
  /\ UniformFrames(sheet_frames)
  /\ Len(sheet_frames) = 2
  /\ sheet_frames[1].w = 2
  /\ sheet_frames[1].h = 1
  /\ sheet_frames[1].mode = "RGB"
  /\ sprite_sheet.w = 4

----------------------------------------------------------------------------
\* what the per-file pipeline of the loop body makes of an input image
PerFile(img) ==
  LET cropped == detect_and_remove_black_borders(img)
      keyed   == remove_background(cropped, detect_background_color(cropped),
                                   tolerance)
  IN  IF auto_crop THEN auto_crop_transparent(keyed, crop_padding) ELSE keyed

\* the common width of the batch: the largest width of processed_images
BatchWidth == SetMax({processed_images[k].w : k \in 1 .. Len(processed_images)})

\* C4: a failure in a stage of one file's pipeline does not abort the batch:
\* every other enumerated file is still processed, and each one that
\* succeeds (pipeline and save) is normalized and written.
C4_FailureIsolated ==
  bd_pc = "done" =>
    \A m \in 1 .. Len(image_files) :
      LET f == image_files[m] IN
      /\ f \in raised \/ \E n \in 1 .. Len(image_filenames) : image_filenames[n] = f
      /\ (f \notin raised /\ f \notin save_raised) =>
           /\ f \in DOMAIN output_dir
           /\ output_dir[f].w = BatchWidth

\* a finished batch in which the file listed first failed and the file listed
\* after it was written
C4_Witness ==
  /\ bd_pc = "done"
  /\ Len(image_files) = 2
  /\ image_files[1] \in raised
  /\ image_files[2] \in DOMAIN output_dir

\* C5: a run that enumerates at least one file ends by reporting counts with
\* success count + failure count = number of enumerated files, also when
\* every file fails.
C5_CountsAddUp ==
  (bd_pc = "done" /\ image_files # <<>>) =>
    /\ report # NoReport
    /\ report[1] + report[2] = Len(image_files)

\* C6: normalization does not start before the pipeline of every enumerated
\* file has finished, the common width is the largest width of the
\* successfully processed images, and nothing is written before
\* normalization has finished.
C6_Barrier ==
  /\ normalized_images # <<>> =>
       /\ bd_pc \in {"save", "done"}
       /\ \A m \in 1 .. Len(image_files) :
            image_files[m] \in raised
              \/ \E n \in 1 .. Len(image_filenames) : image_filenames[n] = image_files[m]
       /\ Len(normalized_images) = Len(processed_images)
       /\ \A n \in 1 .. Len(normalized_images) :
            /\ \A k \in 1 .. Len(processed_images) :
                 normalized_images[n].w >= processed_images[k].w
            /\ \E k \in 1 .. Len(processed_images) :
                 normalized_images[n].w = processed_images[k].w
  /\ (output_dir # <<>> \/ success_count + fail_count > 0) =>
       normalized_images # <<>>

\* two results of different widths, the narrow one first, normalized and
\* written after a barrier
C6_Witness ==
  /\ bd_pc = "done"
  /\ Len(processed_images) = 2
  /\ processed_images[1].w < processed_images[2].w
  /\ normalized_images[1].w = processed_images[2].w
  /\ DOMAIN output_dir = {1, 2}

\* the files whose pipeline is under way
InFlight == IF bd_pc \in InTry THEN {image_files[bd_k]} ELSE {}

\* C7: the per-file pipelines run on a bounded pool: with num_workers >= 2,
\* while one file is in flight and another is waiting, the pipeline of
\* the next file can start, and no more than num_workers files are in flight.
C7_WorkerPool ==
  /\ (num_workers >= 2 /\ bd_pc \in InTry /\ bd_k < Len(image_files)) =>
       ENABLED NextFile
  /\ Cardinality(InFlight) <= num_workers

\* C8: after process_directory every file whose pipeline and save succeeded
\* has one output under its own filename, and that output is the result of
\* the pipeline on the input file of that name, at the width of the batch.
C8_OwnFile ==
  bd_pc = "done" =>
    /\ \A f \in DOMAIN output_dir :
         /\ f \in DOMAIN input_dir
         /\ f \notin raised
         /\ output_dir[f] = NormalizeOne(PerFile(input_dir[f]), BatchWidth)
    /\ \A f \in DOMAIN input_dir :
         (f \notin raised /\ f \notin save_raised) => f \in DOMAIN output_dir

\* a finished batch in which the file listed first failed and the second was
\* written, and in which the other file's result would have been different
C8_Witness ==
  /\ bd_pc = "done"
  /\ Len(image_files) = 2
  /\ image_files[1] \in raised
  /\ image_files[2] \in DOMAIN output_dir
  /\ PerFile(input_dir[image_files[1]]) # PerFile(input_dir[image_files[2]])

----------------------------------------------------------------------------
\* C2: in the full pipeline the left-to-right order of the frames in the
\* final sheet is the ascending source-index order of the extracted frames,
\* for every number of extracted frames and every set of per-file failures.
C2_SheetOrder ==
  fp_pc = "done" =>
    \A k \in 1 .. Len(final_sheet) - 1 : final_sheet[k] < final_sheet[k + 1]

----------------------------------------------------------------------------
\* the columns and the rows (counted from 1) that hold a pixel of alpha > 0
VisibleColumns(img) ==
  {x \in 1 .. img.w : \E y \in 1 .. img.h : img.px[y][x][4] > 0}
VisibleRows(img) ==
  {y \in 1 .. img.h : \E x \in 1 .. img.w : img.px[y][x][4] > 0}

\* C11: for an RGBA image with a pixel of alpha > 0, auto_crop_transparent
\* returns the crop to the columns min_x - padding .. max_x + padding and the
\* rows min_y - padding .. max_y + padding of the visible pixels, clamped to
\* the image; with padding 0 it is max_x - min_x + 1 wide and
\* max_y - min_y + 1 high.
C11_CropBox ==
  (crop_result # NoImage /\ crop_image.mode = "RGBA"
     /\ VisibleColumns(crop_image) # {}) =>
    LET min_x == SetMin(VisibleColumns(crop_image))
        max_x == SetMax(VisibleColumns(crop_image))
        min_y == SetMin(VisibleRows(crop_image))
        max_y == SetMax(VisibleRows(crop_image))
        lo_x == Max(1, min_x - crop_pad)
        hi_x == Min(crop_image.w, max_x + crop_pad)
        lo_y == Max(1, min_y - crop_pad)
        hi_y == Min(crop_image.h, max_y + crop_pad)
    IN  /\ crop_result.w = hi_x - lo_x + 1
        /\ crop_result.h = hi_y - lo_y + 1
        /\ \A y \in 1 .. crop_result.h : \A x \in 1 .. crop_result.w :
             crop_result.px[y][x] = crop_image.px[lo_y + y - 1][lo_x + x - 1]
        /\ crop_pad = 0 =>
             /\ crop_result.w = max_x - min_x + 1
             /\ crop_result.h = max_y - min_y + 1

\* a crop with padding 1 of an image whose only visible pixel is in the
\* rightmost column of the upper row: the box is clamped at the right and
\* at the top
C11_Witness ==
  /\ crop_result # NoImage
  /\ crop_image.mode = "RGBA"
  /\ crop_image.w = 3
  /\ crop_image.h = 2
  /\ crop_pad = 1
  /\ VisibleColumns(crop_image) = {3}
  /\ VisibleRows(crop_image) = {1}
  /\ crop_result.w = 2
  /\ crop_result.h = 2

\* C12: auto_crop_transparent never returns an image of zero width or zero
\* height, and returns a fully transparent RGBA image unchanged.
C12_NeverEmpty ==
  crop_result # NoImage =>
    /\ crop_result.w >= 1
    /\ crop_result.h >= 1
    /\ VisibleColumns(crop_image) = {} => crop_result = crop_image

\* a fully transparent RGBA image returned as it was given
C12_Witness ==
  /\ crop_image.mode = "RGBA"
  /\ crop_image.w = 3
  /\ VisibleColumns(crop_image) = {}
  /\ crop_result = crop_image

----------------------------------------------------------------------------
\* C13: for a non-empty list, normalize_width returns images that all have
\* the largest width of the inputs.
C13_CommonWidth ==
  (norm_pc = "returned" /\ norm_images # <<>>) =>
    /\ Len(norm_result) = Len(norm_images)
    /\ \A k \in 1 .. Len(norm_result) :
         /\ \A n \in 1 .. Len(norm_images) : norm_result[k].w >= norm_images[n].w
         /\ \E n \in 1 .. Len(norm_images) : norm_result[k].w = norm_images[n].w

\* three images of widths 1, 3 and 2 returned at width 3
C13_Witness ==
  /\ norm_pc = "returned"
  /\ Len(norm_images) = 3
  /\ norm_images[1].w = 1
  /\ norm_images[2].w = 3
  /\ norm_images[3].w = 2
  /\ \A k \in 1 .. 3 : norm_result[k].w = 3

----------------------------------------------------------------------------
\* the window arithmetic of the call has run
WindowComputed ==
  \/ ex_pc \in {"indexed", "loop", "returned"}
  \/ ex_pc = "raised" /\ ex_error # "ValueError: cannot open"

\* C14: when start_time = 0 and end_time = 0, or either is the sentinel -1,
\* the whole video is selected: start_frame = 0 and end_frame = total_frames;
\* for any other window start_frame = floor(start_time * fps) and
\* end_frame = min(floor(end_time * fps), total_frames).
C14_Window ==
  WindowComputed =>
    IF (start_time = 0 /\ end_time = 0) \/ start_time = Sentinel
         \/ end_time = Sentinel
    THEN start_frame = 0 /\ end_frame = total_frames
    ELSE /\ start_frame = (start_time * fps) \div TicksPerSecond
         /\ end_frame = Min((end_time * fps) \div TicksPerSecond, total_frames)

\* C15: when end_frame - start_frame <= 0 the call raises without a read of
\* any frame and does not return.
C15_EmptyWindow ==
  (WindowComputed /\ end_frame - start_frame <= 0) =>
    /\ frame_indices = <<>>
    /\ decoded = <<>>
    /\ frames = <<>>
    /\ ex_pc \in {"indexed", "raised"}
    /\ ex_pc = "raised" => ex_error = "IndexError"

\* a call on a window that ends before it starts, ended by the exception
C15_Witness ==
  /\ ex_pc = "raised"
  /\ ex_error = "IndexError"
  /\ start_time > end_time
  /\ end_time > 0
  /\ end_frame - start_frame < 0
  /\ decoded = <<>>

\* the sampled indices that decoded, from position k of frame_indices on
RECURSIVE DecodedFrom(_)
DecodedFrom(k) ==
  IF k > Len(frame_indices) THEN <<>>
  ELSE (IF decoded[frame_indices[k]] THEN <<frame_indices[k]>> ELSE <<>>)
         \o DecodedFrom(k + 1)

\* C16: a decode failure at a sampled index, the first one included, does
\* not fail the call: once indices are sampled the call does not raise, and
\* it returns every sampled index that decoded, in order.
C16_DecodeGapSkipped ==
  /\ (WindowComputed /\ frame_indices # <<>>) => ex_pc # "raised"
  /\ ex_pc = "returned" => frames = DecodedFrom(1)

\* C17: a call never returns an empty frame sequence.
C17_NeverEmptyReturn ==
  ex_pc = "returned" => frames # <<>>

\* C19: with max_frames = 0 and a window that holds a frame, the call does
\* not raise in its window arithmetic and samples at least one index.
C19_ZeroIsAutomatic ==
  (WindowComputed /\ max_frames = 0 /\ end_frame - start_frame > 0) =>
    /\ ex_error = None
    /\ frame_indices # <<>>

----------------------------------------------------------------------------
\* C18: create_sprite_sheet given zero images raises, with frame_size None
\* and with an explicit frame_size, and never returns a sheet of width 0.
C18_EmptyInputRaises ==
  /\ (sheet_frames = <<>> /\ sheet_pc # "call") => sheet_pc = "raised"
  /\ sheet_pc = "returned" => sprite_sheet.w > 0

\* the slot size of a call
SlotSize ==
  IF sheet_frame_size = NoSize THEN <<sheet_frames[1].w, sheet_frames[1].h>>
  ELSE sheet_frame_size

\* C20: for inputs of one size, slot i of the returned sheet (columns
\* i * frame_width .. (i + 1) * frame_width - 1) holds the pixels of the i-th
\* image converted to RGBA and of no other; the i-th image is the i-th
\* input when the slot has the size of the inputs.
C20_SlotsInOrder ==
  (sheet_pc = "returned" /\ UniformFrames(sheet_frames)) =>
    /\ Len(sheet_out_frames) = Len(sheet_frames)
    /\ SlotSize = <<sheet_frames[1].w, sheet_frames[1].h>> =>
         sheet_out_frames = sheet_frames
    /\ \A i \in 0 .. Len(sheet_out_frames) - 1 :
         \A y \in 1 .. SlotSize[2] : \A x \in 1 .. SlotSize[1] :
           sprite_sheet.px[y][i * SlotSize[1] + x]
             = ConvertRGBA(sheet_out_frames[i + 1]).px[y][x]

\* a sheet of two frames of width 2 and height 1, the first RGB and the
\* second RGBA, whose columns 3 and 4 are the second frame
C20_Witness ==
  /\ sheet_pc = "returned"
  /\ sheet_frame_size = NoSize
  /\ Len(sheet_frames) = 2
  /\ UniformFrames(sheet_frames)
  /\ sheet_frames[1].w = 2
  /\ sheet_frames[1].h = 1
  /\ sheet_frames[1].mode = "RGB"
  /\ sheet_frames[2].mode = "RGBA"
  /\ sprite_sheet.px[1][3] = sheet_frames[2].px[1][1]
  /\ sprite_sheet.px[1][4] = sheet_frames[2].px[1][2]

----------------------------------------------------------------------------
\* C21: with auto_crop enabled every image process_directory writes has the
\* width and the height of every other, so that a sheet composed of them
\* with frame_size=None clips none and lets none spill into another slot.
\* Stated for input files of one size, as the frames of one video are.
C21_UniformOutput ==
  (bd_pc = "done" /\ auto_crop
     /\ \A f, g \in DOMAIN input_dir :
          input_dir[f].w = input_dir[g].w /\ input_dir[f].h = input_dir[g].h) =>
    \A f, g \in DOMAIN output_dir :
      /\ output_dir[f].w = output_dir[g].w
      /\ output_dir[f].h = output_dir[g].h

----------------------------------------------------------------------------
\* every read of the call so far decoded
AllDecoded == \A idx \in DOMAIN decoded : decoded[idx]

\* C22: when max_frames > 0 and max_frames < natural_count the stride is
\* available // max_frames, which is at least the base stride
\* max(1, floor(fps / 16)); with every decode succeeding exactly max_frames
\* frames are returned, at start_frame + k * stride for k = 0 .. max_frames - 1,
\* all below end_frame.
C22_CappedStride ==
  LET available == end_frame - start_frame
      base      == Max(1, fps \div 16)
  IN  (ex_pc = "returned" /\ AllDecoded /\ max_frames > 0
         /\ max_frames < available \div base) =>
        LET stride == available \div max_frames
        IN  /\ stride >= base
            /\ Len(frames) = max_frames
            /\ \A k \in 0 .. max_frames - 1 :
                 /\ frames[k + 1] = start_frame + k * stride
                 /\ frames[k + 1] < end_frame

\* a 32 fps video of 6 frames sampled whole under max_frames = 2: the stride
\* is 3 and not the base stride 2
C22_Witness ==
  /\ ex_pc = "returned"
  /\ fps = 32
  /\ max_frames = 2
  /\ end_frame - start_frame = 6
  /\ frames = <<0, 3>>

\* C23: the video handle is released on every exit of the call after a
\* successful open, the return and every raise.
C23_HandleReleased ==
  ex_pc \in {"returned", "raised"} => ~cap_open

----------------------------------------------------------------------------
\* the files whose pipeline did not raise, and the largest width among their
\* results: neither refers to the order of the listing
Survivors == DOMAIN input_dir \ raised
SurvivorWidth == SetMax({PerFile(input_dir[g]).w : g \in Survivors})

\* C24: the files process_directory writes and the pixels of each depend on
\* the set of input files (and on which of them fail) only, not on the
\* order in which the files are listed or processed: the written mapping is
\* the one computed from the set.
C24_OrderFree ==
  bd_pc = "done" =>
    LET width == SurvivorWidth
    IN  output_dir = [f \in Survivors \ save_raised |->
                        NormalizeOne(PerFile(input_dir[f]), width)]

\* a finished batch that listed file 2 before file 1, whose results differ
\* in width and were both written
C24_Witness ==
  /\ bd_pc = "done"
  /\ image_files = <<2, 1>>
  /\ DOMAIN output_dir = {1, 2}
  /\ PerFile(input_dir[1]).w < PerFile(input_dir[2]).w
  /\ output_dir[1].w = output_dir[2].w

-----------------------------------------------------------------------------
\* C25: a frame is border-cropped only when its size lies in the window
\* 1270 <= width <= 1290 and 710 <= height <= 730, on the sampling path and
\* on the batch path alike.
InClaimedWindow(w, h) == 1270 <= w /\ w <= 1290 /\ 710 <= h /\ h <= 730

C25_OnlyInWindow ==
  /\ \A k \in DOMAIN bp_frames :
       bp_frames[k].w # bp_decoded[k].w =>
         InClaimedWindow(bp_decoded[k].w, bp_decoded[k].h)
  /\ \A k \in DOMAIN bp_batch :
       bp_batch[k].w # bp_decoded[k].w =>
         InClaimedWindow(bp_decoded[k].w, bp_decoded[k].h)

\* the columns at which the colour of a frame can change, with 0 and the width
Boundaries(frame) ==
  {StripeStart(frame.bands, k) : k \in DOMAIN frame.bands} \cup {frame.w}

\* every column outside [L, R) is pure black, for L and R in Boundaries
PureBlackOutside(frame, L, R) ==
  \A k \in DOMAIN frame.bands :
    LET s == StripeStart(frame.bands, k)
    IN  (s + frame.bands[k][1] <= L \/ s >= R) => frame.bands[k][2] = Black

\* C26: for a first frame inside the calibration window whose columns
\* outside [L, R) are pure black and whose columns L and R-1 are brighter
\* than the floor, the crop window is exactly <<L, R>>, with
\* 0 <= L < R <= width, and the cropped frame has width R - L and the height
\* of the frame; when L = 0 and R = width there is no crop window.
C26_ExactWindow ==
  bp_pc \in {"loop", "returned"} =>
    LET frame == bp_decoded[1]
    IN  \A L, R \in Boundaries(frame) :
          (/\ InCalibrationWindow(frame.w, frame.h)
           /\ L < R
           /\ PureBlackOutside(frame, L, R)
           /\ ColumnIsNonBlack(frame, L)
           /\ ColumnIsNonBlack(frame, R - 1)) =>
            /\ crop_params = IF L = 0 /\ R = frame.w THEN NoParams
                             ELSE <<L, R>>
            /\ 0 <= L /\ R <= frame.w
            /\ (crop_params # NoParams /\ Len(bp_frames) >= 1) =>
                 /\ bp_frames[1].w = R - L
                 /\ bp_frames[1].h = frame.h

C26_Witness ==
  /\ Len(bp_frames) >= 1
  /\ bp_decoded[1].w = 1280 /\ bp_decoded[1].h = 720
  /\ crop_params = <<40, 1240>>
  /\ bp_frames[1].w = 1200 /\ bp_frames[1].h = 720

\* C27: the crop window of an extraction is the one computed from its first
\* frame; every returned frame is cropped with it, so the returned frames of
\* source frames of one size share one width and one height; on the batch
\* path every image is cropped with the window computed from that image.
C27_OneWindowPerCall ==
  bp_pc \in {"loop", "returned"} =>
    /\ crop_params = detect_black_border_params(bp_decoded[1])
    /\ \A k \in DOMAIN bp_frames :
         /\ bp_frames[k].w = bp_frames[1].w
         /\ bp_frames[k].h = bp_frames[1].h
         /\ bp_frames[k] =
              IF crop_params = NoParams THEN bp_decoded[k]
              ELSE apply_crop(bp_decoded[k], crop_params[1], crop_params[2])
    /\ \A k \in DOMAIN bp_batch :
         LET own == detect_black_border_params(bp_decoded[k])
         IN  bp_batch[k] =
               IF own = NoParams THEN bp_decoded[k]
               ELSE apply_crop(bp_decoded[k], own[1], own[2])

C27_Witness ==
  /\ bp_pc = "returned"
  /\ Len(bp_batch) = 2
  /\ bp_decoded[1].w = 1280 /\ bp_decoded[2].w = 1280
  /\ crop_params = <<40, 1280>>
  /\ bp_frames[1].w = 1240 /\ bp_frames[2].w = 1240
  /\ bp_batch[1].w = 1240 /\ bp_batch[2].w = 1280

-----------------------------------------------------------------------------
\* C28: normalize_width returns an image as wide as the widest unchanged,
\* and a narrower image of width target_width - d on a canvas of
\* target_width by its own height, with floor(d / 2) columns of padding on
\* the left and d - floor(d / 2) on the right; the padding has alpha 0 and
\* every content pixel keeps its alpha.
C28_CenteredKeepsAlpha ==
  norm_pc = "returned" =>
    \A k \in DOMAIN norm_images :
      LET img == norm_images[k]
          out == norm_result[k]
          target_width == SetMax({norm_images[n].w : n \in DOMAIN norm_images})
          d == target_width - img.w
          lpad == d \div 2
          rpad == d - (d \div 2)
      IN  IF d = 0 THEN out = img
          ELSE /\ out.w = target_width
               /\ out.h = img.h
               /\ \A y \in 1 .. out.h : \A x \in 1 .. out.w :
                    IF x <= lpad \/ x > target_width - rpad
                    THEN out.px[y][x][4] = 0
                    ELSE out.px[y][x][4] = img.px[y][x - lpad][4]

-----------------------------------------------------------------------------
\* the pixels of the four corner blocks, concatenated
CornerPixels(img) ==
  LET rgb == ConvertRGB(img)
  IN  Block(rgb, 0, corner_size, 0, corner_size)
        \o Block(rgb, 0, corner_size, rgb.w - corner_size, rgb.w)
        \o Block(rgb, rgb.h - corner_size, rgb.h, 0, corner_size)
        \o Block(rgb, rgb.h - corner_size, rgb.h, rgb.w - corner_size, rgb.w)

Abs(a) == IF a < 0 THEN -a ELSE a

\* every pixel of the image has the colour of its first pixel
IsUniform(img) ==
  \A y \in 1 .. img.h : \A x \in 1 .. img.w : img.px[y][x] = img.px[1][1]

\* detection and keying of a uniform image: the colour is the image's and,
\* for a tolerance >= 0, every pixel of the result has alpha 0
UniformIsKeyedOut ==
  (det_bg_color # NoColor /\ IsUniform(det_image)) =>
    /\ \A c \in 1 .. 3 : det_bg_color[c] = det_image.px[1][1][c]
    /\ (det_result # NoImage /\ det_tolerance >= 0) =>
         \A y \in 1 .. det_result.h : \A x \in 1 .. det_result.w :
           det_result.px[y][x][4] = 0

\* C29 as stated: each channel of the detected colour is the integer nearest
\* to the mean of the corner pixels; a uniform image gives its own colour
\* and is keyed out entirely for any tolerance >= 0.
C29_NearestMean ==
  /\ det_bg_color # NoColor =>
       LET pixels == CornerPixels(det_image)
       IN  \A c \in 1 .. 3 :
             2 * Abs(det_bg_color[c] * Len(pixels) - SumChannel(pixels, c, 1))
               <= Len(pixels)
  /\ UniformIsKeyedOut

\* C29: each channel of the detected colour is the mean of the corner pixels
\* truncated to an integer; a uniform image gives its own colour and is
\* keyed out entirely for any tolerance >= 0.
C29_TruncatedMean ==
  /\ det_bg_color # NoColor =>
       LET pixels == CornerPixels(det_image)
       IN  \A c \in 1 .. 3 :
             /\ det_bg_color[c] * Len(pixels) <= SumChannel(pixels, c, 1)
             /\ SumChannel(pixels, c, 1) < (det_bg_color[c] + 1) * Len(pixels)
  /\ UniformIsKeyedOut

\* a green image with one other pixel in its top-left corner block: the
\* means 0.6375, 254.3625 and 0.005 are detected as 0, 254 and 0
C29_Witness ==
  /\ det_image = DetBigImage(<<0, 255, 0>>, <<255, 0, 2>>, 1, 1)
  /\ det_bg_color = <<0, 254, 0>>
  /\ det_result # NoImage
  /\ det_tolerance = 10

-----------------------------------------------------------------------------
\* the pixels of an image that have alpha > 0
VisiblePixels(img) ==
  {px \in {img.px[y][x] : y \in 1 .. img.h, x \in 1 .. img.w} : px[4] > 0}

\* C30: the result of auto_crop_transparent holds every pixel of its
\* argument that has alpha > 0, and cropping the result again with the same
\* padding returns the result itself.
C30_Idempotent ==
  /\ crop_result # NoImage =>
       \A y \in 1 .. crop_image.h : \A x \in 1 .. crop_image.w :
         crop_image.px[y][x][4] > 0 =>
           \E v \in 1 .. crop_result.h : \E u \in 1 .. crop_result.w :
             crop_result.px[v][u] = crop_image.px[y][x]
  /\ crop_again # NoImage => crop_again = crop_result

\* a padded crop that is narrower than its argument, cropped again
C30_Witness ==
  /\ crop_again # NoImage
  /\ crop_pad = 1
  /\ crop_image.mode = "RGBA"
  /\ VisiblePixels(crop_image) # {}
  /\ crop_result.w < crop_image.w
  /\ crop_again = crop_result

=============================================================================
